---------------------------- MODULE Spec2Model ----------------------------
(***************************************************************************)
(* Scope-tracking engine of eslint-plugin-actions-on-google: the frame     *)
(* stack of ScopeManager, its two concrete trackers (CountScopeManager,    *)
(* PresenceScopeManager) and the event handlers of the rules               *)
(* at-most-two-simple-responses and must-return-response that drive them.  *)
(*                                                                         *)
(* Event labels are sequences of tokens ("IfStatement", ">",               *)
(* "BlockStatement"); String.prototype.includes is a search for a token.   *)
(* A thrown Error is the field err of the manager record: once set, the    *)
(* rest of the handler is skipped, and what was mutated before stays.      *)
(***************************************************************************)
EXTENDS Integers, Sequences, FiniteSets, TLC

VARIABLES
    tracker,        \* "Count" (at-most-two-simple-responses) or "Presence" (must-return-response)
    scopeStack,     \* ScopeManager._scopeStack, bottom first
    err,            \* the Error thrown by the last handler ("none" if it returned)
    reporterCalls,  \* invocations of _reporterFn made by the last handler
    reports,        \* context.report calls made by the last handler: the anchors
    lastOp,         \* the account() call of the last handler, and what it popped
    twin,           \* two more trackers of the same kind over one heap of Scope objects
    firstResponseBuildingCall,  \* the flag of first-item-simple-or-helper-response
    given,          \* the node (and its lexical environment) handed to a classifier method
    returned,       \* what the classifier method has returned or thrown so far
    ast,            \* traversal position: the open syntax nodes, Program first
    phase,          \* "run" while the traversal is under way, "done" after it
    nextNode,       \* identity of the next syntax node to be visited
    live,           \* most counted responses on a path reaching this point (-1: no path)
    best,           \* most counted responses on a path through the enclosing function so far
    violations      \* every context.report of the traversal: anchor, and best at that time

vars == <<tracker, scopeStack, err, reporterCalls, reports, lastOp,
          ast, phase, nextNode, live, best, violations, twin,
          firstResponseBuildingCall, given, returned>>

(***************************************************************************)
(* Bounds of the model.                                                    *)
(***************************************************************************)
MaxNodes == 6        \* syntax nodes of a generated program
MaxDepth == 4        \* open syntax nodes below Program
MaxOps == 6          \* handler calls of a free event sequence
MaxArgs == 3         \* arguments of a call
MaxCallOps == 4      \* handler calls of a sequence of calls and entered branches
MaxCallStack == 4    \* nested calls the engine allows before it throws a RangeError
MaxTwinOps == 5      \* events fed to each of two trackers side by side

NullNode == 0        \* lastViolatingNode: null
Threshold == 2       \* manager.currentScope().metadata > 2

Max(a, b) == IF a >= b THEN a ELSE b

(***************************************************************************)
(* Event labels.                                                           *)
(***************************************************************************)
Includes(event, token) == \E i \in 1..Len(event) : event[i] = token

SentinelEvent == <<"Sentinel">>
ReturnStatementEvent == <<"ReturnStatement">>
IfExpressionEvent == <<"IfStatement", ">", "ExpressionStatement">>
IfBlockEvent == <<"IfStatement", ">", "BlockStatement">>
IfIfEvent == <<"IfStatement", ">", "IfStatement">>
IfExitEvent == <<"IfStatement", ":exit">>
CatchEvent == <<"CatchClause">>
CatchExitEvent == <<"CatchClause", ":exit">>
TryEvent == <<"TryStatement">>
TryBlockEvent == <<"TryStatement", ">", "BlockStatement">>
TryExpressionEvent == <<"TryStatement", ">", "ExpressionStatement">>

\* 'FunctionExpression' + ', Intent' when classifier.isNodeIntentHandler(func.parent)
FunctionEnterEvent(type, intent) ==
    IF intent /\ type \in {"FunctionExpression", "ArrowFunctionExpression"}
    THEN <<type, ",", "Intent">> ELSE <<type>>
FunctionExitEvent(type, intent) ==
    IF intent /\ type \in {"FunctionExpression", "ArrowFunctionExpression"}
    THEN <<type, ":exit", ",", "Intent">> ELSE <<type, ":exit">>

FunctionTypes == {"FunctionExpression", "ArrowFunctionExpression",
                  "FunctionDeclaration", "MethodDefinition"}

(***************************************************************************)
(* ScopeManager: the frame stack.  A manager is the record                 *)
(* [stack, err, calls, reports].  The identity of a Scope object is the    *)
(* index at which it was pushed (0 for the sentinel): no two frames on the *)
(* stack share it.                                                         *)
(***************************************************************************)
Scope(event, metadata, id) ==
    [event |-> event, metadata |-> metadata, lastViolatingNode |-> NullNode,
     hasReturnStatement |-> FALSE, id |-> id]

CurrentScope(m) == m.stack[Len(m.stack)]

\* A throw that is swallowed.
ThrowSwallowed(m, e) == m

Throw(m, e) == [m EXCEPT !.err = e]

\* Array.prototype.indexOf on the frame stack, 0-based, -1 when absent.
IndexOf(stack, scope) ==
    IF \E i \in 1..Len(stack) : stack[i].id = scope.id
    THEN (CHOOSE i \in 1..Len(stack) :
             /\ stack[i].id = scope.id
             /\ \A j \in 1..(i - 1) : stack[j].id # scope.id) - 1
    ELSE -1

IsScopeInsideIntentThrows(stack, scope) ==
    Len(stack) > 0 /\ IndexOf(stack, scope) = -1

\* The query answered from the whole stack, whatever the frame's position.
IsAnyScopeInsideIntent(stack, scope) ==
    \E i \in 1..Len(stack) : Includes(stack[i].event, "Intent")

IsScopeInsideIntent(stack, scope) ==
    IF Len(stack) = 0 THEN FALSE
    ELSE \E i \in 1..(IndexOf(stack, scope) + 1) : Includes(stack[i].event, "Intent")

CountCreateScopeObject(stack, event, id) == Scope(event, 0, id)

\* The default that looks for a handler label on the top frame only.
PresenceCreateScopeObjectTopOnly(stack, event, id) ==
    LET isInsideIntent ==
            \/ (Len(stack) > 0 /\ Includes(stack[Len(stack)].event, "Intent"))
            \/ Includes(event, "Intent")
    IN  Scope(event, ~isInsideIntent, id)

PresenceCreateScopeObject(stack, event, id) ==
    LET isInsideIntent ==
            \/ (Len(stack) > 0 /\ IsScopeInsideIntent(stack, stack[Len(stack)]))
            \/ Includes(event, "Intent")
    IN  Scope(event, ~isInsideIntent, id)

CreateScopeObject(kind, stack, event, id) ==
    IF kind = "Count" THEN CountCreateScopeObject(stack, event, id)
    ELSE PresenceCreateScopeObject(stack, event, id)

\* ScopeManager constructor: this._scopeStack = [this._createScopeObject({event: 'Sentinel'})]
NewManager(kind) ==
    [stack |-> <<CreateScopeObject(kind, <<>>, SentinelEvent, 0)>>,
     err |-> "none", calls |-> <<>>, reports |-> <<>>]

EnterScope(kind, m, event) ==
    IF m.err # "none" THEN m
    ELSE [m EXCEPT !.stack = Append(@, CreateScopeObject(kind, m.stack, event, Len(m.stack)))]

InvariantFails(m) ==
    Len(m.stack) = 0 \/ CurrentScope(m).event = SentinelEvent

\* _exitScope without its _invariant call.
ExitScopeUnchecked(m) ==
    IF m.err # "none" THEN m
    ELSE [m EXCEPT !.stack = SubSeq(@, 1, Len(@) - 1)]

\* _exitScope with the pop before the _invariant call.
ExitScopePopsFirst(m) ==
    IF m.err # "none" THEN m
    ELSE IF InvariantFails(m)
    THEN Throw([m EXCEPT !.stack = SubSeq(@, 1, Len(@) - 1)], "sentinel")
    ELSE [m EXCEPT !.stack = SubSeq(@, 1, Len(@) - 1)]

ExitScope(m) ==
    IF m.err # "none" THEN m
    ELSE IF InvariantFails(m) THEN Throw(m, "sentinel")
    ELSE [m EXCEPT !.stack = SubSeq(@, 1, Len(@) - 1)]

AssignCurrent(m, field, value) ==
    IF m.err # "none" THEN m
    ELSE [m EXCEPT !.stack[Len(m.stack)][field] = value]

MarkReturn(m) == AssignCurrent(m, "hasReturnStatement", TRUE)

(***************************************************************************)
(* The reporter callbacks the two rules hand to their tracker.             *)
(***************************************************************************)
\* The report of a count that has reached the threshold.
CountReportAtThreshold(m) ==
    IF m.err # "none" THEN m
    ELSE IF CurrentScope(m).metadata >= Threshold
    THEN [m EXCEPT !.reports = Append(@, CurrentScope(m).lastViolatingNode)]
    ELSE m

CountReport(m) ==
    IF m.err # "none" THEN m
    ELSE IF CurrentScope(m).metadata > Threshold
    THEN [m EXCEPT !.reports = Append(@, CurrentScope(m).lastViolatingNode)]
    ELSE m

PresenceReport(m, nodeId) ==
    IF m.err # "none" THEN m
    ELSE IF ~CurrentScope(m).metadata
    THEN [m EXCEPT !.reports = Append(@, nodeId)]
    ELSE m

NoteCall(m, nodeId) ==
    [m EXCEPT !.calls = Append(@, [node |-> nodeId,
                                   top |-> CurrentScope(m).id,
                                   metadata |-> CurrentScope(m).metadata])]

CountReporterFn(m) ==
    IF m.err # "none" THEN m ELSE CountReport(NoteCall(m, NullNode))

PresenceReporterFn(m, nodeId) ==
    IF m.err # "none" THEN m ELSE PresenceReport(NoteCall(m, nodeId), nodeId)

(***************************************************************************)
(* CountScopeManager.                                                      *)
(***************************************************************************)
\* The result is the manager after the pop and the popped frame, if any.
GetElseScopeIfAny(m, node) ==
    IF node.alternate /\ Len(m.stack) > 0
       /\ Includes(CurrentScope(m).event, "IfStatement")
    THEN [m |-> ExitScope(m), present |-> TRUE, scope |-> CurrentScope(m)]
    ELSE [m |-> m, present |-> FALSE, scope |-> CurrentScope(m)]

\* last(this._eslintContext.getAncestors()).alternate === ifStatementNode
IsInsideIfElseStatement(node) == node.chained

\* The merge with the branches of a standalone conditional added up.
CountMergeBranchSum(initialVal, ifVal, elseVal, chained) ==
    IF chained THEN Max(initialVal, Max(ifVal, elseVal))
    ELSE initialVal + ifVal + elseVal

\* The merge with the branches of a chained conditional added up.
CountMergeChainSum(initialVal, ifVal, elseVal, chained) ==
    IF chained THEN Max(initialVal, ifVal + elseVal)
    ELSE initialVal + Max(ifVal, elseVal)

CountMerge(initialVal, ifVal, elseVal, chained) ==
    IF chained THEN Max(initialVal, Max(ifVal, elseVal))
    ELSE initialVal + Max(ifVal, elseVal)

\* The undo without its case for two returning branches.
UndoWithoutBothReturn(m, ifScope, elsePresent, elseScope, initialVal) ==
    IF m.err # "none" THEN m
    ELSE IF ifScope.hasReturnStatement
    THEN LET ifScopeVal == ifScope.metadata
             elseScopeVal == IF elsePresent /\ ~elseScope.hasReturnStatement
                             THEN elseScope.metadata ELSE 0
         IN  AssignCurrent(m, "metadata",
                           CurrentScope(m).metadata - ifScopeVal + elseScopeVal)
    ELSE IF elsePresent /\ elseScope.hasReturnStatement
    THEN LET ifScopeVal == IF ~ifScope.hasReturnStatement THEN ifScope.metadata ELSE 0
             elseScopeVal == elseScope.metadata
         IN  AssignCurrent(m, "metadata",
                           CurrentScope(m).metadata - elseScopeVal + ifScopeVal)
    ELSE m

\* The undo taking the counts of both branches off the merged count.
UndoSubtractingBranches(m, ifScope, elsePresent, elseScope, initialVal) ==
    IF m.err # "none" THEN m
    ELSE IF ifScope.hasReturnStatement /\ (elsePresent /\ elseScope.hasReturnStatement)
    THEN AssignCurrent(m, "metadata", initialVal)
    ELSE IF ifScope.hasReturnStatement \/ (elsePresent /\ elseScope.hasReturnStatement)
    THEN AssignCurrent(m, "metadata",
                       CurrentScope(m).metadata - ifScope.metadata
                           - (IF elsePresent THEN elseScope.metadata ELSE 0))
    ELSE m

UndoChangesIfThereIsReturnStatement(m, ifScope, elsePresent, elseScope, initialVal) ==
    IF m.err # "none" THEN m
    ELSE IF ifScope.hasReturnStatement /\ (elsePresent /\ elseScope.hasReturnStatement)
    THEN AssignCurrent(m, "metadata", initialVal)
    ELSE IF ifScope.hasReturnStatement
    THEN LET ifScopeVal == ifScope.metadata
             elseScopeVal == IF elsePresent /\ ~elseScope.hasReturnStatement
                             THEN elseScope.metadata ELSE 0
         IN  AssignCurrent(m, "metadata",
                           CurrentScope(m).metadata - ifScopeVal + elseScopeVal)
    ELSE IF elsePresent /\ elseScope.hasReturnStatement
    THEN LET ifScopeVal == IF ~ifScope.hasReturnStatement THEN ifScope.metadata ELSE 0
             elseScopeVal == elseScope.metadata
         IN  AssignCurrent(m, "metadata",
                           CurrentScope(m).metadata - elseScopeVal + ifScopeVal)
    ELSE m

\* The report of every conditional exit that merged, changed or not.
MergeChangedAlways(initialVal, newVal) == TRUE

\* initialVal - this.currentScope().metadata !== 0
MergeChanged(initialVal, newVal) == initialVal - newVal # 0

\* 'IfStatement:exit' with the undo for return statements run before the
\* report.
CountHandleIfExitUndoesFirst(m, node) ==
    IF m.err # "none" THEN m
    ELSE IF ~Includes(CurrentScope(m).event, "IfStatement") THEN m
    ELSE
      LET e == GetElseScopeIfAny(m, node)
          ifScope == CurrentScope(e.m)
          m1 == ExitScope(e.m)
      IN  IF m1.err # "none" THEN m1
          ELSE
            LET initialVal == CurrentScope(m1).metadata
                newVal == CountMerge(initialVal, ifScope.metadata,
                                     IF e.present THEN e.scope.metadata ELSE 0,
                                     IsInsideIfElseStatement(node))
                m2 == AssignCurrent(m1, "metadata", newVal)
                m3 == UndoChangesIfThereIsReturnStatement(m2, ifScope, e.present,
                                                          e.scope, initialVal)
            IN  IF MergeChanged(initialVal, newVal)
                THEN CountReporterFn(
                         AssignCurrent(m3, "lastViolatingNode", node.id))
                ELSE m3

CountHandleIfExit(m, node) ==
    IF m.err # "none" THEN m
    ELSE IF ~Includes(CurrentScope(m).event, "IfStatement") THEN m
    ELSE
      LET e == GetElseScopeIfAny(m, node)
          ifScope == CurrentScope(e.m)
          m1 == ExitScope(e.m)
      IN  IF m1.err # "none" THEN m1
          ELSE
            LET initialVal == CurrentScope(m1).metadata
                newVal == CountMerge(initialVal, ifScope.metadata,
                                     IF e.present THEN e.scope.metadata ELSE 0,
                                     IsInsideIfElseStatement(node))
                m2 == AssignCurrent(m1, "metadata", newVal)
                m3 == IF MergeChanged(initialVal, CurrentScope(m2).metadata)
                      THEN CountReporterFn(
                               AssignCurrent(m2, "lastViolatingNode", node.id))
                      ELSE m2
            IN  UndoChangesIfThereIsReturnStatement(m3, ifScope, e.present,
                                                    e.scope, initialVal)

\* The catch merge adding the larger branch to the parent.
CountCatchMergeAdd(parentVal, catchVal, tryVal) ==
    parentVal + Max(catchVal, tryVal)

CountCatchMerge(parentVal, catchVal, tryVal) ==
    Max(parentVal, Max(catchVal, tryVal))

\* 'CatchClause:exit' calling the reporter only when the merge changed the
\* count of the parent.
CountHandleCatchExitReportsChange(m, node) ==
    IF m.err # "none" THEN m
    ELSE IF ~Includes(CurrentScope(m).event, "CatchClause")
    THEN Throw(m, "expectedCatch")
    ELSE
      LET catchScope == CurrentScope(m)
          m1 == ExitScope(m)
      IN  IF m1.err # "none" THEN m1
          ELSE IF ~Includes(CurrentScope(m1).event, "TryStatement")
          THEN Throw(m1, "expectedTry")
          ELSE
            LET tryScope == CurrentScope(m1)
                m2 == ExitScope(m1)
                newVal == Max(CurrentScope(m2).metadata,
                              Max(catchScope.metadata, tryScope.metadata))
            IN  IF m2.err # "none" THEN m2
                ELSE IF newVal # CurrentScope(m2).metadata
                THEN CountReporterFn(AssignCurrent(m2, "metadata", newVal))
                ELSE m2

CountHandleCatchExit(m, node) ==
    IF m.err # "none" THEN m
    ELSE IF ~Includes(CurrentScope(m).event, "CatchClause")
    THEN Throw(m, "expectedCatch")
    ELSE
      LET catchScope == CurrentScope(m)
          m1 == ExitScope(m)
      IN  IF m1.err # "none" THEN m1
          ELSE IF ~Includes(CurrentScope(m1).event, "TryStatement")
          THEN Throw(m1, "expectedTry")
          ELSE
            LET tryScope == CurrentScope(m1)
                m2 == ExitScope(m1)
            IN  IF m2.err # "none" THEN m2
                ELSE CountReporterFn(
                       AssignCurrent(m2, "metadata",
                           CountCatchMerge(CurrentScope(m2).metadata,
                                           catchScope.metadata, tryScope.metadata)))

CountDispatchExit(m, node) ==
    IF node.type = "IfStatement" THEN CountHandleIfExit(m, node)
    ELSE IF node.type = "CatchClause" THEN CountHandleCatchExit(m, node)
    ELSE ExitScope(m)

CountAccount(m, node, event) ==
    IF Includes(event, ":exit") THEN CountDispatchExit(m, node)
    ELSE IF event = ReturnStatementEvent THEN MarkReturn(m)
    ELSE EnterScope("Count", m, event)

(***************************************************************************)
(* PresenceScopeManager.                                                   *)
(***************************************************************************)
\* The conditional merge with either branch enough.
PresenceMergeEither(parentVal, ifVal, elsePresent, elseVal) ==
    parentVal \/ ifVal \/ (elsePresent /\ elseVal)

\* The conditional merge that reads the alternate only.
PresenceMergeAlternateOnly(parentVal, ifVal, elsePresent, elseVal) ==
    parentVal \/ (elsePresent /\ elseVal)

\* The conditional merge that forgets what the parent held.
PresenceMergeOverwrites(parentVal, ifVal, elsePresent, elseVal) ==
    IF ifVal /\ elsePresent THEN elseVal ELSE FALSE

\* metadata || (ifScope.metadata && elseScope ? elseScope.metadata : false)
PresenceMerge(parentVal, ifVal, elsePresent, elseVal) ==
    parentVal \/ (IF ifVal /\ elsePresent THEN elseVal ELSE FALSE)

PresenceHandleIfExit(m, node) ==
    IF m.err # "none" THEN m
    ELSE IF ~Includes(CurrentScope(m).event, "IfStatement") THEN m
    ELSE
      LET e == GetElseScopeIfAny(m, node)
          ifScope == CurrentScope(e.m)
          m1 == ExitScope(e.m)
      IN  IF m1.err # "none" THEN m1
          ELSE AssignCurrent(m1, "metadata",
                   PresenceMerge(CurrentScope(m1).metadata, ifScope.metadata,
                                 e.present, e.scope.metadata))

\* The catch merge with either of the two enough.
PresenceCatchMergeEither(parentVal, catchVal, tryVal) ==
    parentVal \/ catchVal \/ tryVal

\* metadata || (catchScope.metadata && tryScope.metadata)
PresenceCatchMerge(parentVal, catchVal, tryVal) ==
    parentVal \/ (catchVal /\ tryVal)

PresenceHandleCatchExit(m, node) ==
    IF m.err # "none" THEN m
    ELSE IF ~Includes(CurrentScope(m).event, "CatchClause")
    THEN Throw(m, "expectedCatch")
    ELSE
      LET catchScope == CurrentScope(m)
          m1 == ExitScope(m)
      IN  IF m1.err # "none" THEN m1
          ELSE IF ~Includes(CurrentScope(m1).event, "TryStatement")
          THEN Throw(m1, "expectedTry")
          ELSE
            LET tryScope == CurrentScope(m1)
                m2 == ExitScope(m1)
            IN  IF m2.err # "none" THEN m2
                ELSE AssignCurrent(m2, "metadata",
                         PresenceCatchMerge(CurrentScope(m2).metadata,
                                            catchScope.metadata, tryScope.metadata))

PresenceHandleIntentHandlerExit(m, node) ==
    IF m.err # "none" THEN m
    ELSE IF Includes(CurrentScope(m).event, "Intent")
    THEN ExitScope(PresenceReporterFn(m, node.id))
    ELSE ExitScope(m)

PresenceDispatchExit(m, node) ==
    IF node.type = "IfStatement" THEN PresenceHandleIfExit(m, node)
    ELSE IF node.type = "CatchClause" THEN PresenceHandleCatchExit(m, node)
    ELSE IF node.type \in FunctionTypes THEN PresenceHandleIntentHandlerExit(m, node)
    ELSE ExitScope(m)

PresenceAccount(m, node, event) ==
    IF Includes(event, ":exit") THEN PresenceDispatchExit(m, node)
    ELSE IF event = ReturnStatementEvent THEN MarkReturn(m)
    ELSE EnterScope("Presence", m, event)

\* account() without its return-marker case: 'ReturnStatement' enters a scope.
AccountReturnEnters(kind, m, node, event) ==
    IF m.err # "none" THEN m
    ELSE IF Includes(event, ":exit")
    THEN (IF kind = "Count" THEN CountDispatchExit(m, node)
          ELSE PresenceDispatchExit(m, node))
    ELSE EnterScope(kind, m, event)

Account(kind, m, node, event) ==
    IF m.err # "none" THEN m
    ELSE IF kind = "Count" THEN CountAccount(m, node, event)
    ELSE PresenceAccount(m, node, event)


(***************************************************************************)
(* CallExpression handlers of the two rules.  A call is the record         *)
(* [action, args, id]: whether classifier.doesReturnActionResponse holds   *)
(* of it, the classification {certain, result} of each argument, and the   *)
(* identity of its callee node.                                            *)
(***************************************************************************)
\* An argument counted unless it is known not to be a simple response.
IsSimpleResponseUnlessKnown(a) == ~a.certain \/ a.result

IsSimpleResponse(a) == a.certain /\ a.result

RECURSIVE CountArguments(_, _, _)
CountArguments(m, args, callee) ==
    IF args = <<>> THEN m
    ELSE LET a == Head(args)
             m1 == IF IsSimpleResponse(a)
                   THEN AssignCurrent(
                            AssignCurrent(m, "metadata", CurrentScope(m).metadata + 1),
                            "lastViolatingNode", callee)
                   ELSE m
         IN  CountArguments(CountReport(m1), Tail(args), callee)

CountCallExpression(m, call) ==
    IF m.err # "none" THEN m
    ELSE IF call.action THEN CountArguments(m, call.args, call.id)
    ELSE m

PresenceCallExpression(m, call) ==
    IF m.err # "none" THEN m
    ELSE IF call.action \/ IsScopeInsideIntent(m.stack, CurrentScope(m))
    THEN AssignCurrent(m, "metadata", TRUE)
    ELSE m

CallExpression(kind, m, call) ==
    IF kind = "Count" THEN CountCallExpression(m, call)
    ELSE PresenceCallExpression(m, call)

\* Number of arguments of a call that the count rule counts.
RECURSIVE Counted(_)
Counted(args) ==
    IF args = <<>> THEN 0
    ELSE (IF IsSimpleResponse(Head(args)) THEN 1 ELSE 0) + Counted(Tail(args))

SimpleArg == [certain |-> TRUE, result |-> TRUE]       \* 'hello', new SimpleResponse(..)
OtherArg == [certain |-> TRUE, result |-> FALSE]       \* new BasicCard(..)
UncertainArg == [certain |-> FALSE, result |-> FALSE]  \* foo(), a.b, ...spread

(***************************************************************************)
(* The rule object: its tracker, and the trace of its last handler.        *)
(***************************************************************************)
Mgr == [stack |-> scopeStack, err |-> "none", calls |-> <<>>, reports |-> <<>>]

Commit(m) ==
    /\ scopeStack' = m.stack
    /\ err' = m.err
    /\ reporterCalls' = m.calls
    /\ reports' = m.reports

NoNode == [type |-> "Program", id |-> NullNode, alternate |-> FALSE, chained |-> FALSE]
NoOp == [event |-> <<>>, node |-> NoNode, popped |-> <<>>, parentBefore |-> 0,
         action |-> FALSE, args |-> <<>>]

\* What the frames that a handler removed held, in the order it popped them.
Popped(before, after) ==
    [i \in 1..(IF Len(before) > Len(after) THEN Len(before) - Len(after) ELSE 0)
        |-> [event |-> before[Len(before) + 1 - i].event,
             metadata |-> before[Len(before) + 1 - i].metadata,
             hasReturnStatement |-> before[Len(before) + 1 - i].hasReturnStatement]]

\* The trace of an account() call: the metadata that the frame left on top
\* had before the call, when the call popped frames.
Op(event, node, before, after) ==
    [event |-> event, node |-> node, popped |-> Popped(before, after),
     parentBefore |-> IF Len(before) > Len(after) /\ Len(after) > 0
                      THEN before[Len(after)].metadata ELSE 0,
     action |-> FALSE, args |-> <<>>]

\* The trace of a CallExpression handler: the call it was given.
CallOp(call) ==
    [event |-> <<"CallExpression">>,
     node |-> [type |-> "CallExpression", id |-> call.id,
               alternate |-> FALSE, chained |-> FALSE],
     popped |-> <<>>, parentBefore |-> 0,
     action |-> call.action, args |-> call.args]

InitTracker(kind) ==
    LET m == NewManager(kind)
    IN  /\ tracker = kind
        /\ scopeStack = m.stack
        /\ err = m.err
        /\ reporterCalls = m.calls
        /\ reports = m.reports
        /\ lastOp = NoOp
        /\ twin = NewManager(kind)
        /\ firstResponseBuildingCall = TRUE
        /\ given = <<>>
        /\ returned = <<>>

(***************************************************************************)
(* Free event sequences: any account() call and any CallExpression, in any *)
(* order, on a tracker that keeps being used after an Error.               *)
(***************************************************************************)
FreeEnterEvents ==
    {IfBlockEvent, CatchEvent, TryEvent,
     FunctionEnterEvent("FunctionDeclaration", FALSE),
     FunctionEnterEvent("ArrowFunctionExpression", TRUE)}

\* account() reads node.type, node.alternate and the node's identity only on
\* an exit event, and alternate and the ancestors only for an IfStatement;
\* of the label of an exit event it reads nothing but ':exit'.
FreeNodes ==
    [type : {"IfStatement"}, id : {1}, alternate : BOOLEAN, chained : BOOLEAN]
    \cup [type : {"CatchClause", "ArrowFunctionExpression", "FunctionDeclaration",
                  "BlockStatement"},
          id : {1}, alternate : {FALSE}, chained : {FALSE}]

FreeExitEvent(node) ==
    IF node.type = "IfStatement" THEN IfExitEvent
    ELSE IF node.type = "CatchClause" THEN CatchExitEvent
    ELSE IF node.type = "ArrowFunctionExpression"
    THEN FunctionExitEvent("ArrowFunctionExpression", TRUE)
    ELSE FunctionExitEvent("FunctionDeclaration", FALSE)

FreeCalls ==
    {[action |-> TRUE, args |-> <<SimpleArg>>, id |-> 2],
     [action |-> TRUE, args |-> <<UncertainArg>>, id |-> 2],
     [action |-> FALSE, args |-> <<>>, id |-> 2]}

InitFree ==
    /\ \E kind \in {"Count", "Presence"} : InitTracker(kind)
    /\ ast = <<>>
    /\ phase = "free"
    /\ nextNode = 1
    /\ live = 0
    /\ best = 0
    /\ violations = <<>>

\* nextNode counts the handler calls.
FreeStep(m, op) ==
    /\ nextNode <= MaxOps
    /\ nextNode' = nextNode + 1
    /\ Commit(m)
    /\ lastOp' = op
    /\ UNCHANGED <<tracker, ast, phase, live, best, violations, twin,
                   firstResponseBuildingCall, given, returned>>

FreeAccount(node, event) ==
    LET m == Account(tracker, Mgr, node, event)
    IN  FreeStep(m, Op(event, node, scopeStack, m.stack))

FreeEnter ==
    /\ phase = "free"
    /\ \E event \in FreeEnterEvents : FreeAccount(NoNode, event)

FreeReturn ==
    /\ phase = "free"
    /\ FreeAccount(NoNode, ReturnStatementEvent)

FreeExit ==
    /\ phase = "free"
    /\ \E node \in FreeNodes : FreeAccount(node, FreeExitEvent(node))

FreeCallExpression ==
    /\ phase = "free"
    /\ \E call \in FreeCalls :
           FreeStep(CallExpression(tracker, Mgr, call), CallOp(call))

NextFree == FreeEnter \/ FreeReturn \/ FreeExit \/ FreeCallExpression

SpecFree == InitFree /\ [][NextFree]_vars

(***************************************************************************)
(* The 'CallExpression' handler of at-most-two-simple-responses on calls   *)
(* of up to MaxArgs arguments, each argument of any classification, with   *)
(* frames entered in between.                                              *)
(***************************************************************************)
Classifications == {SimpleArg, OtherArg, UncertainArg}

ArgumentLists ==
    UNION {[1..n -> Classifications] : n \in 0..MaxArgs}

ArgumentCalls ==
    [action : BOOLEAN, args : ArgumentLists, id : {2}]

InitCalls ==
    /\ InitTracker("Count")
    /\ ast = <<>>
    /\ phase = "free"
    /\ nextNode = 1
    /\ live = 0
    /\ best = 0
    /\ violations = <<>>

CallArguments ==
    /\ phase = "free" /\ nextNode <= MaxCallOps
    /\ \E call \in ArgumentCalls :
           FreeStep(CallExpression(tracker, Mgr, call), CallOp(call))

EnterBranch ==
    /\ phase = "free" /\ nextNode <= MaxCallOps
    /\ FreeAccount(NoNode, IfBlockEvent)

NextCalls == CallArguments \/ EnterBranch

SpecCalls == InitCalls /\ [][NextCalls]_vars

(***************************************************************************)
(* Two trackers of the same kind, constructed one after the other in one   *)
(* process and fed the same events and the same calls in the same order.   *)
(* Scope objects are JavaScript objects: a tracker's _scopeStack holds     *)
(* references, and what a handler assigns to a Scope is seen through every *)
(* reference to it.  twin holds the two instances: heap maps an address to *)
(* the Scope stored there, first and second are the _scopeStack arrays of  *)
(* the two instances as sequences of addresses, firstOut and secondOut     *)
(* what the last handler of each raised, passed to its reporter and        *)
(* reported.  The variables above hold the run of one tracker on its own,  *)
(* frames by value, under the same events.                                 *)
(***************************************************************************)
Addresses == 1..(2 * (MaxTwinOps + 1))

\* The addresses a _scopeStack refers to.
Referenced(refs) == {refs[i] : i \in 1..Len(refs)}

\* What a handler leaves behind: the array popped down to the frames that
\* stay, the Object.assign of each frame that stays written to the object
\* the array refers to, and a frame pushed by _enterScope stored in a new
\* object (new Scope(params)), at the first address nothing refers to.
Store(heap, used, refs, stack) ==
    LET array == IF Len(stack) > Len(refs)
                 THEN Append(refs, CHOOSE a \in Addresses :
                                       /\ a \notin used
                                       /\ \A b \in Addresses : b < a => b \in used)
                 ELSE SubSeq(refs, 1, Len(stack))
    IN  [heap |-> [a \in Addresses |->
                      IF a \in Referenced(array)
                      THEN stack[CHOOSE i \in 1..Len(array) : array[i] = a]
                      ELSE heap[a]],
         refs |-> array]

\* One sentinel Scope at module level, shared by every constructor call.
ConstructOnModuleSentinel(heap, used, kind) ==
    [heap |-> [heap EXCEPT ![1] = NewManager(kind).stack[1]], refs |-> <<1>>]

\* this._scopeStack = [this._createScopeObject({event: 'Sentinel'})]: a new
\* array holding a new Scope.
Construct(heap, used, kind) ==
    Store(heap, used, <<>>, NewManager(kind).stack)

\* The manager a handler of an instance starts from: the frames it reads
\* through this._scopeStack.
TwinMgr(heap, refs) ==
    [stack |-> [i \in 1..Len(refs) |-> heap[refs[i]]],
     err |-> "none", calls |-> <<>>, reports |-> <<>>]

\* create(context) called twice.  An address nothing refers to holds no
\* Scope.
InitTwin ==
    \E kind \in {"Count", "Presence"} :
        LET one == Construct([a \in Addresses |-> [event |-> <<>>]], {}, kind)
            two == Construct(one.heap, Referenced(one.refs), kind)
            m == NewManager(kind)
        IN  /\ tracker = kind
            /\ scopeStack = m.stack
            /\ err = m.err
            /\ reporterCalls = m.calls
            /\ reports = m.reports
            /\ lastOp = NoOp
            /\ twin = [heap |-> two.heap, first |-> one.refs, second |-> two.refs,
                       firstOut |-> [err |-> m.err, calls |-> m.calls,
                                     reports |-> m.reports],
                       secondOut |-> [err |-> m.err, calls |-> m.calls,
                                      reports |-> m.reports]]
            /\ firstResponseBuildingCall = TRUE
            /\ given = <<>>
            /\ returned = <<>>
            /\ ast = <<>>
            /\ phase = "twin"
            /\ nextNode = 1
            /\ live = 0
            /\ best = 0
            /\ violations = <<>>

\* One event of the sequence: the handler of the first instance runs and
\* returns, then that of the second, each on the frames its own array
\* refers to; a Scope no array refers to any more is gone.  The handler is
\* the rule's 'CallExpression' handler of the call when the event is
\* CallExpression, and account(node, event) otherwise.
TwinStep(call, node, event, op) ==
    LET Handler(m) == IF event = <<"CallExpression">>
                      THEN CallExpression(tracker, m, call)
                      ELSE Account(tracker, m, node, event)
    IN  /\ phase = "twin"
        /\ nextNode <= MaxTwinOps
        /\ \E first \in {Handler(TwinMgr(twin.heap, twin.first))} :
           \E one \in {Store(twin.heap, Referenced(twin.first) \cup Referenced(twin.second),
                             twin.first, first.stack)} :
           \E second \in {Handler(TwinMgr(one.heap, twin.second))} :
           \E two \in {Store(one.heap, Referenced(one.refs) \cup Referenced(twin.second),
                             twin.second, second.stack)} :
               /\ nextNode' = nextNode + 1
               /\ Commit(Handler(Mgr))
               /\ lastOp' = op
               /\ twin' = [heap |-> [a \in Addresses |->
                                        IF a \in Referenced(one.refs) \cup Referenced(two.refs)
                                        THEN two.heap[a] ELSE [event |-> <<>>]],
                           first |-> one.refs, second |-> two.refs,
                           firstOut |-> [err |-> first.err, calls |-> first.calls,
                                         reports |-> first.reports],
                           secondOut |-> [err |-> second.err, calls |-> second.calls,
                                          reports |-> second.reports]]
               /\ UNCHANGED <<tracker, ast, phase, live, best, violations,
                              firstResponseBuildingCall, given, returned>>

\* account(node, event) on both instances: an entering event, a return
\* marker or an exit.
TwinAccount ==
    \E e \in {[node |-> NoNode, event |-> event] :
                  event \in FreeEnterEvents \cup {ReturnStatementEvent}}
             \cup {[node |-> node, event |-> FreeExitEvent(node)] : node \in FreeNodes} :
        TwinStep([action |-> FALSE, args |-> <<>>, id |-> NullNode], e.node, e.event,
                 Op(e.event, e.node, scopeStack,
                    Account(tracker, Mgr, e.node, e.event).stack))

TwinCallExpression ==
    \E call \in FreeCalls :
        TwinStep(call, CallOp(call).node, CallOp(call).event, CallOp(call))

NextTwin == TwinAccount \/ TwinCallExpression

SpecTwin == InitTwin /\ [][NextTwin]_vars


(***************************************************************************)
(* Traversal.  ESLint walks the syntax tree of a program and calls the     *)
(* rule's handlers on the way down and up; the program is any program of   *)
(* at most MaxNodes nodes, chosen node by node as the walk proceeds.  ast  *)
(* holds the open nodes.  An IfStatement is at stage 0 before its          *)
(* consequent, 1 after it and 2 after its alternate; a TryStatement is at  *)
(* stage 0 before its block, 1 after it, 2 after its handler and 3 after   *)
(* its finalizer.                                                          *)
(*                                                                         *)
(* An IfStatement node of a statement list remembers the frame that is     *)
(* current where it stands (frame: its index in the stack), an             *)
(* IfStatement node that is the branch of a conditional the frame pushed   *)
(* for it as that branch; a                                                *)
(* function-like node remembers the frame pushed at its entry (frame) and  *)
(* what the frame beneath held just before that entry (beneath); an        *)
(* IfStatement node remembers whether its consequent is a                  *)
(* return statement or a block with a return statement in its list         *)
(* (returns).                                                              *)
(*                                                                         *)
(* live and best follow the paths of the program being walked: a path      *)
(* takes one branch of each conditional, the block or the handler of each  *)
(* try statement, and stops at a return.                                   *)
(***************************************************************************)
SyntaxNode(type, id, role) ==
    [type |-> type, id |-> id, role |-> role, stage |-> 0, alternate |-> FALSE,
     intent |-> FALSE, frame |-> 0, returns |-> FALSE,
     entryLive |-> 0, otherLive |-> 0, savedBest |-> 0,
     hasCall |-> FALSE, direct |-> FALSE,
     beneath |-> [metadata |-> 0, lastViolatingNode |-> NullNode,
                  hasReturnStatement |-> FALSE]]

Top == ast[Len(ast)]

IsContainer(n) ==
    n.type \in {"Program", "BlockStatement", "CatchClause"} \cup FunctionTypes

Running == phase = "run" /\ err = "none"
CanVisit == Running /\ nextNode <= MaxNodes
CanOpen == CanVisit /\ Len(ast) <= MaxDepth

\* The node as the handlers see it.
EslintNode(n) ==
    [type |-> n.type, id |-> n.id, alternate |-> n.alternate,
     chained |-> (n.type = "IfStatement" /\ n.role = "alternate")]

\* A child of the open node on top has been left.
ChildDone(stack) ==
    IF stack[Len(stack)].type \in {"IfStatement", "TryStatement"}
    THEN [stack EXCEPT ![Len(stack)].stage = @ + 1]
    ELSE stack

Pop(stack) == SubSeq(stack, 1, Len(stack) - 1)

\* A call expression has been visited: it lies in the body of every open
\* function, and directly in the statement list of the function on top.
WithCall(stack) ==
    [i \in 1..Len(stack) |->
        IF stack[i].type \in FunctionTypes
        THEN [stack[i] EXCEPT !.hasCall = TRUE, !.direct = @ \/ (i = Len(stack))]
        ELSE stack[i]]

AddLive(n) == IF live = -1 THEN -1 ELSE live + n

\* context.report calls of the handler, each with the most responses that a
\* path through the enclosing function emits.
Reported(m, bestNow) ==
    violations \o [i \in 1..Len(m.reports) |-> [node |-> m.reports[i], truth |-> bestNow]]

Visit(m, op, newAst, newLive, newBest, visited) ==
    /\ Commit(m)
    /\ lastOp' = op
    /\ ast' = newAst
    /\ live' = newLive
    /\ best' = newBest
    /\ nextNode' = nextNode + visited
    /\ violations' = Reported(m, newBest)
    /\ UNCHANGED <<tracker, phase, twin, firstResponseBuildingCall, given, returned>>

Accounted(node, event) == Account(tracker, Mgr, node, event)
OpOf(m, node, event) == Op(event, node, scopeStack, m.stack)

TraversalCalls ==
    {[action |-> TRUE, args |-> <<SimpleArg>>],       \* conv.ask('hello')
     [action |-> TRUE, args |-> <<UncertainArg>>],    \* conv.ask(foo())
     [action |-> FALSE, args |-> <<>>]}               \* foo()

CallOf(c) == [action |-> c.action, args |-> c.args, id |-> nextNode]
CountedBy(c) == IF c.action THEN Counted(c.args) ELSE 0

TraversalFunctions ==
    {[type |-> "FunctionDeclaration", intent |-> FALSE],    \* function f() {..}
     [type |-> "ArrowFunctionExpression", intent |-> TRUE]} \* app.intent('x', (conv) => {..})

\* A return statement is valid inside a function only.
InFunction == \E i \in 1..Len(ast) : ast[i].type \in FunctionTypes

Init ==
    /\ \E kind \in {"Count", "Presence"} : InitTracker(kind)
    /\ ast = <<SyntaxNode("Program", 0, "root")>>
    /\ phase = "run"
    /\ nextNode = 1
    /\ live = 0
    /\ best = 0
    /\ violations = <<>>

\* An expression statement that is a call: conv.ask('x'); foo();
CallStatement ==
    \E c \in TraversalCalls :
        /\ CanVisit /\ IsContainer(Top)
        /\ LET m == CallExpression(tracker, Mgr, CallOf(c))
               l == AddLive(CountedBy(c))
           IN  Visit(m, CallOp(CallOf(c)), WithCall(ast), l, Max(best, l), 1)

\* return; in a statement list.  Only the count rule listens.
ReturnStatement ==
    /\ CanVisit /\ IsContainer(Top) /\ InFunction
    /\ LET node == EslintNode(SyntaxNode("ReturnStatement", nextNode, "statement"))
           m == IF tracker = "Count" THEN Accounted(node, ReturnStatementEvent) ELSE Mgr
           op == IF tracker = "Count" THEN OpOf(m, node, ReturnStatementEvent) ELSE NoOp
           marked == IF Top.type = "BlockStatement" /\ Top.role = "consequent"
                     THEN [ast EXCEPT ![Len(ast) - 1].returns = TRUE] ELSE ast
       IN  Visit(m, op, marked, -1, best, 1)

\* if (..) in a statement list: no handler listens to the entry.
EnterIf ==
    /\ CanOpen /\ IsContainer(Top)
    /\ Visit(Mgr, NoOp,
             Append(ast, [SyntaxNode("IfStatement", nextNode, "statement")
                             EXCEPT !.entryLive = live, !.frame = Len(scopeStack)]),
             live, best, 1)

\* The branch of the open conditional that comes next, and the state of the
\* conditional when that branch is entered.
BranchRole == IF Top.stage = 0 THEN "consequent" ELSE "alternate"
AtBranch == Top.type = "IfStatement" /\ Top.stage \in {0, 1}
BranchLive == IF Top.stage = 0 THEN live ELSE Top.entryLive
Branching ==
    IF Top.stage = 0 THEN ast
    ELSE [ast EXCEPT ![Len(ast)].alternate = TRUE, ![Len(ast)].otherLive = live]

\* 'IfStatement > BlockStatement'
IfBlock ==
    /\ CanOpen /\ AtBranch
    /\ LET node == SyntaxNode("BlockStatement", nextNode, BranchRole)
           m == Accounted(EslintNode(node), IfBlockEvent)
       IN  Visit(m, OpOf(m, EslintNode(node), IfBlockEvent),
                 Append(Branching, node), BranchLive, best, 1)

\* 'IfStatement > ExpressionStatement', the expression a call or not.
IfExpression ==
    \E c \in TraversalCalls, isCall \in BOOLEAN :
        /\ CanVisit /\ AtBranch
        /\ isCall \/ ~c.action
        /\ LET node == EslintNode(SyntaxNode("ExpressionStatement", nextNode, BranchRole))
               m1 == Accounted(node, IfExpressionEvent)
               m == IF isCall THEN CallExpression(tracker, m1, CallOf(c)) ELSE m1
               l == IF BranchLive = -1 THEN -1
                    ELSE BranchLive + (IF isCall THEN CountedBy(c) ELSE 0)
           IN  Visit(m, OpOf(m, node, IfExpressionEvent),
                     ChildDone(IF isCall THEN WithCall(Branching) ELSE Branching),
                     l, Max(best, l), 1)

\* 'IfStatement > IfStatement': else if (..), or if (..) if (..);
IfIf ==
    /\ CanOpen /\ AtBranch
    /\ LET node == SyntaxNode("IfStatement", nextNode, BranchRole)
           m == Accounted(EslintNode(node), IfIfEvent)
       IN  Visit(m, OpOf(m, EslintNode(node), IfIfEvent),
                 Append(Branching, [node EXCEPT !.entryLive = BranchLive,
                                                !.frame = Len(m.stack)]),
                 BranchLive, best, 1)

\* A branch that is a return statement: if (..) return;  else return;
IfReturn ==
    /\ CanVisit /\ AtBranch /\ InFunction
    /\ LET node == EslintNode(SyntaxNode("ReturnStatement", nextNode, BranchRole))
           m == IF tracker = "Count" THEN Accounted(node, ReturnStatementEvent) ELSE Mgr
           op == IF tracker = "Count" THEN OpOf(m, node, ReturnStatementEvent) ELSE NoOp
           marked == IF Top.stage = 0
                     THEN [Branching EXCEPT ![Len(ast)].returns = TRUE] ELSE Branching
       IN  Visit(m, op, ChildDone(marked), -1, best, 1)

\* A branch that is any other statement without a call: ;  x++;  break;
IfOther ==
    /\ CanVisit /\ AtBranch
    /\ Visit(Mgr, NoOp, ChildDone(Branching), BranchLive, best, 1)

\* 'IfStatement:exit'
ExitIf ==
    /\ Running /\ Top.type = "IfStatement" /\ Top.stage \in {1, 2}
    /\ LET node == EslintNode(Top)
           m == Accounted(node, IfExitEvent)
           l == IF Top.alternate THEN Max(Top.otherLive, live)
                ELSE Max(Top.entryLive, live)
       IN  Visit(m, OpOf(m, node, IfExitEvent), ChildDone(Pop(ast)), l, best, 0)

\* The end of a block whose exit no handler listens to.
ExitBlock ==
    /\ Running /\ Top.type = "BlockStatement"
    /\ Visit(Mgr, NoOp, ChildDone(Pop(ast)), live, best, 0)

\* try in a statement list: 'TryStatement' (the count rule).
EnterTry ==
    /\ CanOpen /\ IsContainer(Top)
    /\ LET node == [SyntaxNode("TryStatement", nextNode, "statement")
                       EXCEPT !.entryLive = live]
           m == IF tracker = "Count" THEN Accounted(EslintNode(node), TryEvent) ELSE Mgr
           op == IF tracker = "Count" THEN OpOf(m, EslintNode(node), TryEvent) ELSE NoOp
       IN  Visit(m, op, Append(ast, node), live, best, 1)

\* The block of a try statement, or its finalizer:
\* 'TryStatement > BlockStatement' (the presence rule).
TryBlock ==
    /\ CanOpen /\ Top.type = "TryStatement" /\ Top.stage \in {0, 1, 2}
    /\ LET node == SyntaxNode("BlockStatement", nextNode,
                              IF Top.stage = 0 THEN "block" ELSE "finalizer")
           m == IF tracker = "Presence"
                THEN Accounted(EslintNode(node), TryBlockEvent) ELSE Mgr
           op == IF tracker = "Presence"
                 THEN OpOf(m, EslintNode(node), TryBlockEvent) ELSE NoOp
       IN  Visit(m, op,
                 Append(IF Top.stage = 0 THEN ast ELSE [ast EXCEPT ![Len(ast)].stage = 2],
                        node),
                 live, best, 1)

\* 'CatchClause'
EnterCatch ==
    /\ CanOpen /\ Top.type = "TryStatement" /\ Top.stage = 1
    /\ LET node == SyntaxNode("CatchClause", nextNode, "handler")
           m == Accounted(EslintNode(node), CatchEvent)
       IN  Visit(m, OpOf(m, EslintNode(node), CatchEvent),
                 Append([ast EXCEPT ![Len(ast)].otherLive = live], node),
                 Top.entryLive, best, 1)

\* 'CatchClause:exit'
ExitCatch ==
    /\ Running /\ Top.type = "CatchClause"
    /\ LET node == EslintNode(Top)
           m == Accounted(node, CatchExitEvent)
           try == ast[Len(ast) - 1]
       IN  Visit(m, OpOf(m, node, CatchExitEvent), ChildDone(Pop(ast)),
                 Max(try.otherLive, live), best, 0)

\* The end of a try statement with a handler or a finalizer: no handler listens.
ExitTry ==
    /\ Running /\ Top.type = "TryStatement" /\ Top.stage \in {2, 3}
    /\ Visit(Mgr, NoOp, ChildDone(Pop(ast)), live, best, 0)

\* The call app.intent('x', ..) whose last argument is the handler: the
\* 'CallExpression' handler sees it before the handler is entered.
IntentCall == [action |-> FALSE, args |-> <<>>, id |-> nextNode]

\* A function in a statement list: function f() {..}, app.intent('x', (conv) => {..})
EnterFunction ==
    \E f \in TraversalFunctions :
        /\ CanOpen /\ IsContainer(Top)
        /\ LET called == IF f.intent THEN CallExpression(tracker, Mgr, IntentCall) ELSE Mgr
               node == [SyntaxNode(f.type, nextNode, "statement")
                           EXCEPT !.intent = f.intent, !.entryLive = live,
                                  !.savedBest = best,
                                  !.frame = Len(scopeStack) + 1,
                                  !.beneath =
                                      [metadata |-> CurrentScope(called).metadata,
                                       lastViolatingNode |->
                                           CurrentScope(called).lastViolatingNode,
                                       hasReturnStatement |->
                                           CurrentScope(called).hasReturnStatement]]
               event == FunctionEnterEvent(f.type, f.intent)
               m == Account(tracker, called, EslintNode(node), event)
           IN  Visit(m, OpOf(m, EslintNode(node), event),
                     Append(IF f.intent THEN WithCall(ast) ELSE ast, node), 0, 0, 1)

ExitFunction ==
    /\ Running /\ Top.type \in FunctionTypes
    /\ LET node == EslintNode(Top)
           event == FunctionExitEvent(Top.type, Top.intent)
           m == Accounted(node, event)
       IN  Visit(m, OpOf(m, node, event), Pop(ast), Top.entryLive, Top.savedBest, 0)

\* The end of the program.
Finish ==
    /\ Running /\ Top.type = "Program"
    /\ phase' = "done"
    /\ UNCHANGED <<tracker, scopeStack, err, reporterCalls, reports, lastOp, twin,
                   firstResponseBuildingCall,
                   ast, nextNode, live, best, violations, given, returned>>

Next ==
    \/ CallStatement \/ ReturnStatement
    \/ EnterIf \/ IfBlock \/ IfExpression \/ IfIf \/ IfReturn \/ IfOther \/ ExitIf
    \/ ExitBlock
    \/ EnterTry \/ TryBlock \/ EnterCatch \/ ExitCatch \/ ExitTry
    \/ EnterFunction \/ ExitFunction
    \/ Finish

Spec == Init /\ [][Next]_vars


(***************************************************************************)
(* The rule first-item-simple-or-helper-response.  It keeps one flag and   *)
(* no scope manager.  An argument of a call is the record [simple, helper] *)
(* of its two classifications {certain, result}.  The walk is over the     *)
(* functions and the calls of a program of at most MaxNodes nodes; ast     *)
(* holds the open functions, each with whether it is a recognized handler  *)
(* (intent) and whether a response-building call lies in it (hasCall).     *)
(***************************************************************************)
TextItem == [simple |-> SimpleArg, helper |-> OtherArg]            \* 'hello'
HelperItem == [simple |-> OtherArg, helper |-> SimpleArg]          \* new SignIn()
CardItem == [simple |-> OtherArg, helper |-> OtherArg]             \* new BasicCard()
UnknownItem == [simple |-> UncertainArg, helper |-> UncertainArg]  \* foo()

\* return !certain || result
FirstItemIsSimpleResponse(a) == ~a.simple.certain \/ a.simple.result
FirstItemIsHelperResponse(a) == ~a.helper.certain \/ a.helper.result

DoesContainHelperOrSimple(args) ==
    \E i \in 1..Len(args) :
        FirstItemIsHelperResponse(args[i]) \/ FirstItemIsSimpleResponse(args[i])

\* The 'CallExpression' handler: the flag it leaves and the reports it makes.
FirstItemCallExpression(flag, call) ==
    IF call.action
    THEN [flag |-> FALSE,
          reports |-> IF flag /\ ~DoesContainHelperOrSimple(call.args)
                      THEN <<call.id>> ELSE <<>>]
    ELSE [flag |-> flag, reports |-> <<>>]

\* The flag after the entry of a function: the rule listens to
\* 'FunctionDeclaration' and 'ArrowFunctionExpression'.
FirstItemFunction(flag, type, intent) ==
    IF type \in {"FunctionDeclaration", "ArrowFunctionExpression"}
    THEN intent ELSE flag

\* A function declaration is a statement: its parent is never the call
\* app.intent(..), and isNodeIntentHandler is false of it.
FirstItemFunctions ==
    {[type |-> "ArrowFunctionExpression", intent |-> TRUE],      \* app.intent('x', (conv) => {..})
     [type |-> "ArrowFunctionExpression", intent |-> FALSE],     \* list.forEach((x) => {..})
     [type |-> "FunctionExpression", intent |-> TRUE],           \* app.intent('x', function (conv) {..})
     [type |-> "FunctionExpression", intent |-> FALSE],          \* list.forEach(function (x) {..})
     [type |-> "FunctionDeclaration", intent |-> FALSE]}         \* function f() {..}

FirstItemCalls ==
    [action : {TRUE}, args : {<<TextItem>>, <<HelperItem>>, <<CardItem>>,
                              <<UnknownItem>>, <<CardItem, TextItem>>, <<>>},
     id : {nextNode}]
    \cup [action : {FALSE}, args : {<<>>}, id : {nextNode}]

InitFirst ==
    /\ tracker = "FirstItem"
    /\ scopeStack = <<>>
    /\ err = "none"
    /\ reporterCalls = <<>>
    /\ reports = <<>>
    /\ lastOp = NoOp
    /\ twin = [stack |-> <<>>, err |-> "none", calls |-> <<>>, reports |-> <<>>]
    /\ firstResponseBuildingCall = TRUE
    /\ given = <<>>
    /\ returned = <<>>
    /\ ast = <<SyntaxNode("Program", 0, "root")>>
    /\ phase = "first"
    /\ nextNode = 1
    /\ live = 0
    /\ best = 0
    /\ violations = <<>>

FirstItemStep(flag, made, op, newAst, visited) ==
    /\ firstResponseBuildingCall' = flag
    /\ reports' = made
    /\ violations' = violations \o [i \in 1..Len(made) |-> [node |-> made[i], truth |-> 0]]
    /\ lastOp' = op
    /\ ast' = newAst
    /\ nextNode' = nextNode + visited
    /\ UNCHANGED <<tracker, scopeStack, err, reporterCalls, twin, phase, live, best,
                   given, returned>>

FirstItemCall ==
    /\ phase = "first" /\ nextNode <= MaxNodes
    /\ \E call \in FirstItemCalls :
           LET r == FirstItemCallExpression(firstResponseBuildingCall, call)
           IN  FirstItemStep(r.flag, r.reports, CallOp(call),
                             IF call.action THEN WithCall(ast) ELSE ast, 1)

FirstItemEnterFunction ==
    /\ phase = "first" /\ nextNode <= MaxNodes /\ Len(ast) <= MaxDepth
    /\ \E f \in FirstItemFunctions :
           LET node == [SyntaxNode(f.type, nextNode, "statement") EXCEPT !.intent = f.intent]
           IN  FirstItemStep(FirstItemFunction(firstResponseBuildingCall, f.type, f.intent),
                             <<>>,
                             [NoOp EXCEPT !.event = FunctionEnterEvent(f.type, f.intent),
                                          !.node = EslintNode(node)],
                             Append(ast, node), 1)

\* The rule does not listen to the exit of a function.
FirstItemExitFunction ==
    /\ phase = "first" /\ Top.type \in FunctionTypes
    /\ FirstItemStep(firstResponseBuildingCall, <<>>, NoOp, Pop(ast), 0)

NextFirst == FirstItemCall \/ FirstItemEnterFunction \/ FirstItemExitFunction

SpecFirst == InitFirst /\ [][NextFirst]_vars


(***************************************************************************)
(* Properties.                                                             *)
(***************************************************************************)

\* The frame on top of the stack.
TopScope == scopeStack[Len(scopeStack)]

\* The last handler called was 'IfStatement:exit' of the counting tracker
\* and it returned normally.
CountIfExited ==
    /\ tracker = "Count"
    /\ err = "none"
    /\ lastOp.event = IfExitEvent

\* C1: when the walk of a program has ended (every enter matched by its
\* exit, whatever conditionals and try statements the program holds), the
\* frame stack holds the sentinel and nothing else.
C1_BalancedTraversalLeavesSentinel ==
    phase = "done" => Len(scopeStack) = 1

\* C2: whatever events a tracker has been given, in order or not, its stack
\* is not empty and its bottom frame is the sentinel pushed at construction.
C2_SentinelAtBottom ==
    /\ Len(scopeStack) >= 1
    /\ scopeStack[1].event = SentinelEvent
    /\ scopeStack[1].id = 0

\* C2 witness: an exit event arrived when only the sentinel was on the
\* stack; the tracker refused to pop it.
C2_Witness ==
    /\ phase = "free"
    /\ err = "sentinel"
    /\ Len(scopeStack) = 1

\* C3: no handler called during the walk of a program throws: the tracker
\* is never asked to pop the sentinel, and never misses the frame it
\* expects on top.
C3_NoInvariantViolation ==
    phase \in {"run", "done"} => err = "none"

\* C4: every report of the at-most-two rule is valid: the function (or the
\* top-level code) holding the reported call has a path, taking one branch
\* of each conditional, the block or the handler of each try statement,
\* and ending at a return statement, with more than two counted responses.
C4_ReportsAreValid ==
    tracker = "Count" =>
        \A i \in 1..Len(violations) : violations[i].truth > Threshold

\* The conditional exit traced by op popped the frames of its branches:
\* the consequent's frame last, the alternate's frame, if any, first.
Merged(op) == Len(op.popped) >= 1

ConsequentFrame(op) == op.popped[Len(op.popped)]

AlternateFrame(op) == op.popped[1]

HasAlternateFrame(op) == Len(op.popped) = 2

ConsequentCount(op) == ConsequentFrame(op).metadata

AlternateCount(op) == IF HasAlternateFrame(op) THEN AlternateFrame(op).metadata ELSE 0

\* The frames popped were pushed for branches that are blocks or
\* expression statements.
BranchFrames(op) ==
    \A i \in 1..Len(op.popped) : op.popped[i].event \in {IfBlockEvent, IfExpressionEvent}

NoReturn(op) == \A i \in 1..Len(op.popped) : ~op.popped[i].hasReturnStatement

\* C5: the exit of a conditional that is not the alternate of another one,
\* whose consequent frame counts c and whose alternate frame counts e (0
\* without an alternate), neither holding a return statement, leaves the
\* parent frame at its count before the exit plus max(c, e).
C5_StandaloneMergeAddsMax ==
    (/\ CountIfExited
     /\ ~lastOp.node.chained
     /\ Merged(lastOp)
     /\ NoReturn(lastOp))
    => TopScope.metadata =
           lastOp.parentBefore + Max(ConsequentCount(lastOp), AlternateCount(lastOp))

\* C5 witness: a standalone conditional with consequent count 2 and
\* alternate count 1 has been merged: the parent gained 2.
C5_Witness ==
    /\ phase = "free"
    /\ CountIfExited
    /\ ~lastOp.node.chained
    /\ HasAlternateFrame(lastOp)
    /\ NoReturn(lastOp)
    /\ ConsequentCount(lastOp) = 2
    /\ AlternateCount(lastOp) = 1
    /\ TopScope.metadata = lastOp.parentBefore + 2

\* The exit of a chained conditional without return statements.
ChainedMerged ==
    /\ CountIfExited
    /\ lastOp.node.chained
    /\ Merged(lastOp)
    /\ NoReturn(lastOp)

\* The exit of the conditional at the head of an else-if chain, right after
\* the exit of the chained conditional that is its alternate, whose frame
\* counted nothing but its branches.
ChainHeadMerged ==
    /\ ChainedMerged
    /\ err' = "none"
    /\ lastOp'.event = IfExitEvent
    /\ ~lastOp'.node.chained
    /\ HasAlternateFrame(lastOp')
    /\ AlternateFrame(lastOp').event = IfIfEvent
    /\ NoReturn(lastOp')
    /\ lastOp.parentBefore = 0

\* C6: a chained conditional without return statements merges into its
\* parent frame as max(parent, consequent, alternate or 0); and the exit of
\* the head of an else-if chain adds to the frame around the chain the
\* maximum of the counts of all the branches of the chain, not their sum.
C6_ChainPropagatesMax ==
    [][/\ ChainedMerged' =>
            TopScope'.metadata =
                Max(lastOp'.parentBefore,
                    Max(ConsequentCount(lastOp'), AlternateCount(lastOp')))
       /\ ChainHeadMerged =>
            TopScope'.metadata =
                lastOp'.parentBefore
                    + Max(ConsequentCount(lastOp'),
                          Max(ConsequentCount(lastOp), AlternateCount(lastOp)))]_vars

\* C6 witness: if (a) one response; else if (b) { two responses } has been
\* left: the frame around the chain gained 2.
C6_Witness ==
    /\ phase = "run"
    /\ CountIfExited
    /\ ~lastOp.node.chained
    /\ HasAlternateFrame(lastOp)
    /\ AlternateFrame(lastOp).event = IfIfEvent
    /\ NoReturn(lastOp)
    /\ ConsequentCount(lastOp) = 1
    /\ AlternateCount(lastOp) = 2
    /\ TopScope.metadata = lastOp.parentBefore + 2

\* C7: when the consequent of a conditional holds a return statement and
\* its alternate does not, the parent frame is left at its count before
\* the merge plus the count of the alternate.
C7_ConsequentReturnKeepsAlternate ==
    (/\ CountIfExited
     /\ HasAlternateFrame(lastOp)
     /\ BranchFrames(lastOp)
     /\ ConsequentFrame(lastOp).hasReturnStatement
     /\ ~AlternateFrame(lastOp).hasReturnStatement)
    => TopScope.metadata = lastOp.parentBefore + AlternateCount(lastOp)

\* C8: when the alternate of a conditional holds a return statement and
\* its consequent does not, the parent frame is left at its count before
\* the merge plus the count of the consequent.
C8_AlternateReturnKeepsConsequent ==
    (/\ CountIfExited
     /\ HasAlternateFrame(lastOp)
     /\ BranchFrames(lastOp)
     /\ AlternateFrame(lastOp).hasReturnStatement
     /\ ~ConsequentFrame(lastOp).hasReturnStatement)
    => TopScope.metadata = lastOp.parentBefore + ConsequentCount(lastOp)

\* C9: when both branches of a conditional hold a return statement, the
\* parent frame is left at its count before the merge, whatever the
\* branches count and whether the conditional is chained or not.
C9_BothReturnRestoresParent ==
    (/\ CountIfExited
     /\ HasAlternateFrame(lastOp)
     /\ ConsequentFrame(lastOp).hasReturnStatement
     /\ AlternateFrame(lastOp).hasReturnStatement)
    => TopScope.metadata = lastOp.parentBefore

\* C9 witness: a chained conditional whose branches both return, the
\* alternate after one response, has been left with its parent unchanged.
C9_Witness ==
    /\ phase = "free"
    /\ CountIfExited
    /\ lastOp.node.chained
    /\ HasAlternateFrame(lastOp)
    /\ ConsequentFrame(lastOp).hasReturnStatement
    /\ AlternateFrame(lastOp).hasReturnStatement
    /\ AlternateCount(lastOp) = 1
    /\ TopScope.metadata = lastOp.parentBefore

\* The walk leaves a conditional of a statement list that has no
\* alternate and whose consequent holds a return statement.
LeavesReturningIf ==
    /\ tracker = "Count"
    /\ Running
    /\ Top.type = "IfStatement"
    /\ Top.role = "statement"
    /\ ~Top.alternate
    /\ Top.returns
    /\ lastOp'.event = IfExitEvent
    /\ lastOp'.node.id = Top.id

\* C10: after the exit of a conditional without alternate whose consequent
\* holds a return statement, the current frame counts what the frame
\* current where the conditional stands counted before the exit, so the
\* code after the conditional is counted from there.
C10_ReturningIfRestoresParent ==
    [][LeavesReturningIf =>
          /\ err' = "none"
          /\ TopScope'.metadata = scopeStack[Top.frame].metadata]_vars

\* The last handler called was 'CatchClause:exit' of the counting tracker
\* and it returned normally: it popped a catch frame, then a try frame.
CountCatchExited ==
    /\ tracker = "Count"
    /\ err = "none"
    /\ lastOp.event = CatchExitEvent

CatchCount(op) == op.popped[1].metadata

TryCount(op) == op.popped[2].metadata

\* The stack with its two top frames removed and the metadata of the frame
\* then on top set to value.
MergedInto(stack, value) ==
    [SubSeq(stack, 1, Len(stack) - 2) EXCEPT ![Len(stack) - 2].metadata = value]

\* A 'CatchClause:exit' arrives with a catch frame on top of a try frame.
CatchExitOnCatchOverTry ==
    /\ err = "none"
    /\ Len(scopeStack) >= 3
    /\ Includes(TopScope.event, "CatchClause")
    /\ Includes(scopeStack[Len(scopeStack) - 1].event, "TryStatement")
    /\ lastOp'.event = CatchExitEvent

\* C11: a 'CatchClause:exit' of the counting tracker that finds a catch
\* frame on top of a try frame pops the two, sets the count of the frame
\* then on top to max(its count, catch count, try count), and changes
\* nothing else of the stack.
C11_CatchMergeTakesMax ==
    [][(tracker = "Count" /\ CatchExitOnCatchOverTry) =>
          /\ err' = "none"
          /\ scopeStack' =
                MergedInto(scopeStack,
                    Max(scopeStack[Len(scopeStack) - 2].metadata,
                        Max(TopScope.metadata,
                            scopeStack[Len(scopeStack) - 1].metadata)))]_vars

\* C11 witness: a catch frame counting 2 over a try frame counting 0 has
\* been merged into a parent counting 1: the parent counts 2.
C11_Witness ==
    /\ phase = "free"
    /\ CountCatchExited
    /\ Len(lastOp.popped) = 2
    /\ Includes(lastOp.popped[1].event, "CatchClause")
    /\ Includes(lastOp.popped[2].event, "TryStatement")
    /\ CatchCount(lastOp) = 2
    /\ TryCount(lastOp) = 0
    /\ lastOp.parentBefore = 1
    /\ TopScope.metadata = 2

\* C12: a try statement with a catch clause adds max(try count, catch
\* count) to what the enclosing frame counted before it, as a standalone
\* conditional does with its branches.
C12_CatchMergeAddsToParent ==
    CountCatchExited =>
        TopScope.metadata =
            lastOp.parentBefore + Max(CatchCount(lastOp), TryCount(lastOp))

\* C13: every 'CatchClause:exit' of the counting tracker that completes
\* its merge calls the reporter once, with the merged parent on top,
\* whether the merge changed its count or not.
C13_CatchExitReportsOnce ==
    CountCatchExited =>
        /\ Len(reporterCalls) = 1
        /\ reporterCalls[1].top = TopScope.id
        /\ reporterCalls[1].metadata = TopScope.metadata
        /\ reporterCalls[1].metadata =
               Max(lastOp.parentBefore, Max(CatchCount(lastOp), TryCount(lastOp)))

\* C13 witness: a catch exit whose merge left the parent's count of 1 as it
\* was has called the reporter once.
C13_Witness ==
    /\ phase = "free"
    /\ CountCatchExited
    /\ lastOp.parentBefore = 1
    /\ CatchCount(lastOp) = 0
    /\ TryCount(lastOp) = 1
    /\ TopScope.metadata = 1
    /\ Len(reporterCalls) = 1

\* What the merge of the conditional exit traced by op gave the parent,
\* before any undo for return statements.
MergedCount(op) ==
    IF op.node.chained
    THEN Max(op.parentBefore, Max(ConsequentCount(op), AlternateCount(op)))
    ELSE op.parentBefore + Max(ConsequentCount(op), AlternateCount(op))

\* The step is an 'IfStatement:exit' of the counting tracker that merged.
CountIfExitStep ==
    /\ tracker = "Count"
    /\ err' = "none"
    /\ lastOp'.event = IfExitEvent
    /\ Merged(lastOp')

\* C14: a conditional exit calls the reporter, and sets lastViolatingNode
\* of the parent frame to the conditional, when the merge made the parent
\* count more than before; when the merged count is the count before, the
\* reporter is not called and lastViolatingNode of the parent stays.
C14_IfExitReportsIffIncreased ==
    [][CountIfExitStep =>
          LET k == Len(scopeStack')
          IN  IF MergedCount(lastOp') > lastOp'.parentBefore
              THEN /\ Len(reporterCalls') = 1
                   /\ reporterCalls'[1].top = scopeStack'[k].id
                   /\ reporterCalls'[1].metadata = MergedCount(lastOp')
                   /\ scopeStack'[k].lastViolatingNode = lastOp'.node.id
              ELSE /\ MergedCount(lastOp') = lastOp'.parentBefore
                   /\ reporterCalls' = <<>>
                   /\ scopeStack'[k].lastViolatingNode
                          = scopeStack[k].lastViolatingNode]_vars

\* C14 witness: a conditional whose branches count nothing has been merged
\* into a parent counting 1 whose last counted call is node 2: no reporter
\* call, and lastViolatingNode is still node 2.
C14_Witness ==
    /\ phase = "free"
    /\ CountIfExited
    /\ HasAlternateFrame(lastOp)
    /\ NoReturn(lastOp)
    /\ lastOp.parentBefore = 1
    /\ TopScope.metadata = 1
    /\ reporterCalls = <<>>
    /\ TopScope.lastViolatingNode = 2

\* Functions open around the point the walk has reached, when nothing else
\* is open.
OnlyFunctionsOpen ==
    /\ Len(ast) = Len(scopeStack)
    /\ \A i \in 2..Len(ast) : ast[i].type \in FunctionTypes
    /\ \A i \in 2..Len(scopeStack) : scopeStack[i].event[1] \in FunctionTypes

\* Number of counted calls in the current frame, when the program walked so
\* far is nothing but the headers of the open functions followed by that
\* many statements conv.ask('..') in the innermost one: every node visited
\* is one of those functions or a call counted in the top frame.
SequentialCalls == nextNode - Len(scopeStack)

OnlySequentialCalls ==
    /\ tracker = "Count"
    /\ phase = "run"
    /\ err = "none"
    /\ OnlyFunctionsOpen
    /\ \A i \in 1..(Len(scopeStack) - 1) : scopeStack[i].metadata = 0
    /\ TopScope.metadata = SequentialCalls

\* C15: after k calls conv.ask('..') in a row in a frame that counted 0,
\* the rule has reported nothing for the first and the second and one
\* violation, anchored at the call, for each call from the third on: none
\* for k <= 2, one for k = 3.
C15_ReportsFromThirdCall ==
    OnlySequentialCalls =>
        /\ Len(violations) = Max(0, SequentialCalls - Threshold)
        /\ \A i \in 1..Len(violations) :
               violations[i].node = Len(scopeStack) - 1 + Threshold + i

\* C15 witness: conv.ask('1'); conv.ask('2'); conv.ask('3'); at the top of
\* a program has been walked: one violation, anchored at the third call.
C15_Witness ==
    /\ OnlySequentialCalls
    /\ Len(scopeStack) = 1
    /\ SequentialCalls = 3
    /\ lastOp.event = <<"CallExpression">>
    /\ lastOp.node.id = 3
    /\ Len(violations) = 1
    /\ violations[1].node = 3

\* A frame of the stack has a handler-marked label.
InsideHandler(stack) ==
    \E i \in 1..Len(stack) : Includes(stack[i].event, "Intent")

\* The step of the presence tracker pushes a frame.
PresencePushStep ==
    /\ tracker = "Presence"
    /\ Len(scopeStack') = Len(scopeStack) + 1

\* C16: the sentinel of the presence tracker starts with metadata true, and
\* a frame pushed by an entering event starts with metadata false if the
\* label of the event marks a handler or a frame already on the stack has
\* a handler-marked label, and with metadata true otherwise.
C16_PresenceDefaultMetadata ==
    /\ (tracker = "Presence" => scopeStack[1].metadata = TRUE)
    /\ [][PresencePushStep =>
             /\ SubSeq(scopeStack', 1, Len(scopeStack)) = scopeStack
             /\ TopScope'.event = lastOp'.event
             /\ TopScope'.metadata =
                    ~(Includes(lastOp'.event, "Intent") \/ InsideHandler(scopeStack))]_vars

\* C16 witness: a frame has been pushed on a conditional block frame that
\* sits on a handler's frame: its metadata is false.
C16_Witness ==
    /\ phase = "free"
    /\ tracker = "Presence"
    /\ Len(scopeStack) = 4
    /\ Includes(scopeStack[2].event, "Intent")
    /\ scopeStack[3].event = IfBlockEvent
    /\ lastOp.event = IfBlockEvent
    /\ TopScope.event = IfBlockEvent
    /\ TopScope.metadata = FALSE

\* The last operation was an 'IfStatement:exit' of the presence tracker
\* that merged.
PresenceIfExited ==
    /\ tracker = "Presence"
    /\ lastOp.event = IfExitEvent
    /\ err = "none"
    /\ Len(lastOp.popped) > 0

\* C17: at a conditional's exit in the presence tracker, with an alternate
\* both branch frames are popped and the parent becomes
\* parent OR (consequent AND alternate); without an alternate the
\* consequent is popped and the parent is unchanged.
C17_PresenceIfMerge ==
    PresenceIfExited =>
        /\ Len(lastOp.popped) = (IF lastOp.node.alternate THEN 2 ELSE 1)
        /\ Len(lastOp.popped) = 2 =>
               TopScope.metadata =
                   (lastOp.parentBefore
                       \/ (lastOp.popped[2].metadata /\ lastOp.popped[1].metadata))
        /\ Len(lastOp.popped) = 1 =>
               TopScope.metadata = lastOp.parentBefore

\* C17 witness: a conditional with an alternate has merged two true
\* branches into a parent that was false.
C17_Witness ==
    /\ PresenceIfExited
    /\ lastOp.node.alternate
    /\ Len(lastOp.popped) = 2
    /\ lastOp.popped[1].event = IfBlockEvent
    /\ lastOp.popped[2].event = IfBlockEvent
    /\ lastOp.popped[1].metadata
    /\ lastOp.popped[2].metadata
    /\ lastOp.parentBefore = FALSE
    /\ TopScope.metadata = TRUE

\* The stack with the metadata of the parent, of the consequent frame and
\* of the alternate frame (the top frame) set to the given values.
WithBranchValues(stack, parentVal, consequentVal, alternateVal) ==
    LET n == Len(stack)
    IN  [stack EXCEPT ![n - 2].metadata = parentVal,
                      ![n - 1].metadata = consequentVal,
                      ![n].metadata = alternateVal]

\* The stack with the metadata of its two top frames exchanged.
BranchesSwapped(stack) ==
    LET n == Len(stack)
    IN  WithBranchValues(stack, stack[n - 2].metadata,
                         stack[n].metadata, stack[n - 1].metadata)

\* The outcome of the presence tracker's 'IfStatement:exit' on the stack.
PresenceIfExitOn(stack, node) ==
    LET m == PresenceHandleIfExit([Mgr EXCEPT !.stack = stack], node)
    IN  [stack |-> m.stack, err |-> m.err]

\* Two conditional branch frames lie on top of a parent frame.
TwoBranchesOnParent ==
    /\ Len(scopeStack) >= 3
    /\ Includes(TopScope.event, "IfStatement")
    /\ Includes(scopeStack[Len(scopeStack) - 1].event, "IfStatement")

\* The step is the presence tracker's exit of a conditional with an
\* alternate, taken with two branch frames on top of a parent frame.
PresenceIfElseExitStep ==
    /\ tracker = "Presence"
    /\ err = "none"
    /\ TwoBranchesOnParent
    /\ lastOp'.event = IfExitEvent
    /\ lastOp'.node.alternate

\* C18: the conditional merge of the presence tracker is commutative in
\* its branches: the exit of a conditional with an alternate leaves the
\* stack it would leave with the values of the consequent and alternate
\* frames exchanged, and this for all boolean values of the parent and of
\* the two branches.
C18_PresenceMergeCommutes ==
    [][PresenceIfElseExitStep =>
          /\ err' = "none"
          /\ scopeStack' = PresenceIfExitOn(BranchesSwapped(scopeStack), lastOp'.node).stack
          /\ \A p, x, y \in BOOLEAN :
                 PresenceIfExitOn(WithBranchValues(scopeStack, p, x, y), lastOp'.node)
                     = PresenceIfExitOn(WithBranchValues(scopeStack, p, y, x), lastOp'.node)]_vars

\* C18 witness: a conditional has merged a true branch and a false branch
\* into a parent that was false, and the parent stays false.
C18_Witness ==
    /\ PresenceIfExited
    /\ lastOp.node.alternate
    /\ Len(lastOp.popped) = 2
    /\ lastOp.popped[1].event = IfBlockEvent
    /\ lastOp.popped[2].event = IfBlockEvent
    /\ lastOp.popped[1].metadata # lastOp.popped[2].metadata
    /\ lastOp.parentBefore = FALSE
    /\ TopScope.metadata = FALSE

\* The last operation was a 'CatchClause:exit' of the presence tracker that
\* completed.
PresenceCatchExited ==
    /\ tracker = "Presence"
    /\ lastOp.event = CatchExitEvent
    /\ err = "none"

\* The step is the presence tracker's 'CatchClause:exit', taken with a
\* catch frame on top of a try frame.
PresenceCatchExitOnCatchOverTry ==
    /\ tracker = "Presence"
    /\ err = "none"
    /\ Len(scopeStack) >= 3
    /\ Includes(TopScope.event, "CatchClause")
    /\ Includes(scopeStack[Len(scopeStack) - 1].event, "TryStatement")
    /\ lastOp'.event = CatchExitEvent

\* C19: in the presence tracker a 'CatchClause:exit' with a catch frame on
\* top of a try frame pops the catch frame and then the try frame, sets the
\* parent's metadata to parent OR (catch AND try), changes no other frame
\* and does not call the reporter.
C19_PresenceCatchMerge ==
    [][PresenceCatchExitOnCatchOverTry =>
          LET n == Len(scopeStack)
          IN  /\ err' = "none"
              /\ lastOp'.popped = << [event |-> scopeStack[n].event,
                                      metadata |-> scopeStack[n].metadata,
                                      hasReturnStatement |-> scopeStack[n].hasReturnStatement],
                                     [event |-> scopeStack[n - 1].event,
                                      metadata |-> scopeStack[n - 1].metadata,
                                      hasReturnStatement |-> scopeStack[n - 1].hasReturnStatement] >>
              /\ scopeStack' =
                     [SubSeq(scopeStack, 1, n - 2) EXCEPT ![n - 2].metadata =
                          scopeStack[n - 2].metadata
                              \/ (scopeStack[n].metadata /\ scopeStack[n - 1].metadata)]
              /\ reporterCalls' = <<>>
              /\ reports' = <<>>]_vars

\* C19 witness: a catch frame and a try frame, both true, have been merged
\* into a parent that was false, without a reporter call.
C19_Witness ==
    /\ PresenceCatchExited
    /\ Len(lastOp.popped) = 2
    /\ Includes(lastOp.popped[1].event, "CatchClause")
    /\ Includes(lastOp.popped[2].event, "TryStatement")
    /\ lastOp.popped[1].metadata
    /\ lastOp.popped[2].metadata
    /\ lastOp.parentBefore = FALSE
    /\ TopScope.metadata = TRUE
    /\ reporterCalls = <<>>

\* The step is the presence tracker's exit event of the function-like node
\* that is innermost in the walk.
PresenceFunctionExitStep ==
    /\ tracker = "Presence"
    /\ Running
    /\ Top.type \in FunctionTypes
    /\ ast' = Pop(ast)
    /\ lastOp'.node.id = Top.id

\* The reporter is called once, with the node, while the frame pushed at
\* the node's entry is the top frame, and that frame is then popped.
ReportsOnOwnFrame(node) ==
    /\ err' = "none"
    /\ Len(scopeStack) = node.frame
    /\ Includes(TopScope.event, "Intent")
    /\ reporterCalls' = << [node |-> node.id, top |-> node.frame - 1,
                            metadata |-> TopScope.metadata] >>
    /\ scopeStack' = Pop(scopeStack)

\* C20: in the presence tracker the exit event of a function-like node
\* that was entered with a handler-marked label calls the reporter exactly
\* once, with that node, while the handler's own frame is the top frame,
\* and then pops that frame; the exit event of a function-like node that
\* was not entered as a handler does not call the reporter.
C20_HandlerExitReportsOnce ==
    [][PresenceFunctionExitStep =>
          IF Top.intent THEN ReportsOnOwnFrame(Top)
          ELSE reporterCalls' = <<>>]_vars

\* The step is the exit event, under must-return-response, of a recognized
\* handler whose body holds no call expression.
SilentHandlerExitStep ==
    /\ PresenceFunctionExitStep
    /\ Top.intent
    /\ ~Top.hasCall

\* C21: under must-return-response the exit of a recognized handler whose
\* body holds no call expression at all, whatever conditionals and try
\* statements it holds, reports exactly one violation, anchored at the
\* handler node.
C21_SilentHandlerReported ==
    [][SilentHandlerExitStep => reports' = <<Top.id>>]_vars

\* The step is the exit event, under must-return-response, of a recognized
\* handler with a call expression directly in its statement list.
CallingHandlerExitStep ==
    /\ PresenceFunctionExitStep
    /\ Top.intent
    /\ Top.direct

\* C22: under must-return-response no violation is reported for a
\* recognized handler that holds a call expression, action-producing or of
\* unknown return type, directly in its own statement list.
C22_CallingHandlerNotReported ==
    [][CallingHandlerExitStep => reports' = <<>>]_vars

\* The step is a call of account() on the tracker.
AccountStep ==
    /\ phase = "free"
    /\ nextNode' = nextNode + 1
    /\ lastOp'.event # <<"CallExpression">>

\* The manager after the tracker's exit handling for the node's type.
ExitHandled(node) ==
    IF tracker = "Count" THEN CountDispatchExit(Mgr, node)
    ELSE PresenceDispatchExit(Mgr, node)

\* C23: account() dispatches an event in exactly one of three ways: a
\* label with ':exit' runs the tracker's exit handling for the type of the
\* node; the label 'ReturnStatement' sets hasReturnStatement on the top
\* frame and changes nothing else; any other label pushes one frame with
\* that label and leaves the existing frames unchanged.
C23_AccountDispatch ==
    [][AccountStep =>
          LET event == lastOp'.event
              n == Len(scopeStack)
          IN  IF Includes(event, ":exit")
              THEN /\ scopeStack' = ExitHandled(lastOp'.node).stack
                   /\ err' = ExitHandled(lastOp'.node).err
                   /\ reporterCalls' = ExitHandled(lastOp'.node).calls
                   /\ Len(scopeStack') <= n
              ELSE IF event = ReturnStatementEvent
              THEN /\ scopeStack' = [scopeStack EXCEPT ![n].hasReturnStatement = TRUE]
                   /\ err' = "none"
                   /\ reporterCalls' = <<>>
              ELSE /\ Len(scopeStack') = n + 1
                   /\ SubSeq(scopeStack', 1, n) = scopeStack
                   /\ scopeStack'[n + 1].event = event
                   /\ scopeStack'[n + 1].hasReturnStatement = FALSE
                   /\ err' = "none"
                   /\ reporterCalls' = <<>>]_vars

\* C23 witness: the return marker has been set on a frame that has counted
\* a response, above a frame that is not marked.
C23_Witness ==
    /\ phase = "free"
    /\ tracker = "Count"
    /\ lastOp.event = ReturnStatementEvent
    /\ Len(scopeStack) = 3
    /\ TopScope.hasReturnStatement
    /\ TopScope.metadata = 1
    /\ ~scopeStack[2].hasReturnStatement
    /\ scopeStack[2].metadata = 1

\* The step is an exit event whose handling is a call of _exitScope and
\* nothing before it, taken with the sentinel on top of the stack.
ExitScopeOnSentinelStep ==
    /\ phase = "free"
    /\ nextNode' = nextNode + 1
    /\ Includes(lastOp'.event, ":exit")
    /\ lastOp'.node.type \in {"BlockStatement"} \cup FunctionTypes
    /\ TopScope.event = SentinelEvent

\* C24: _exitScope called with the sentinel on top raises the fatal error
\* and leaves the frame stack as it was: the same frames with the same
\* metadata.
C24_SentinelPopRaises ==
    [][ExitScopeOnSentinelStep =>
          /\ err' = "sentinel"
          /\ scopeStack' = scopeStack]_vars

\* C24 witness: _exitScope has raised on a stack that holds the sentinel
\* alone, after frames had been pushed and popped, and the sentinel is
\* still there.
C24_Witness ==
    /\ phase = "free"
    /\ err = "sentinel"
    /\ lastOp.node.type = "BlockStatement"
    /\ nextNode > 3
    /\ Len(scopeStack) = 1
    /\ TopScope.event = SentinelEvent

\* The step is a conditional exit taken with a top frame whose label is
\* not a conditional's.
IfExitMismatchStep ==
    /\ phase = "free"
    /\ nextNode' = nextNode + 1
    /\ lastOp'.event = IfExitEvent
    /\ ~Includes(TopScope.event, "IfStatement")

\* The step is a try/catch exit taken with a top frame whose label is not
\* a catch clause's.
CatchExitCatchMismatchStep ==
    /\ phase = "free"
    /\ nextNode' = nextNode + 1
    /\ lastOp'.event = CatchExitEvent
    /\ ~Includes(TopScope.event, "CatchClause")

\* The step is a try/catch exit taken with a catch frame on top of a frame
\* whose label is not a try statement's.
CatchExitTryMismatchStep ==
    /\ phase = "free"
    /\ nextNode' = nextNode + 1
    /\ lastOp'.event = CatchExitEvent
    /\ Includes(TopScope.event, "CatchClause")
    /\ ~Includes(scopeStack[Len(scopeStack) - 1].event, "TryStatement")

\* C25 as stated: in either tracker a merge, at a conditional exit or at a
\* try/catch exit, that does not find the frame label it expects on top of
\* the stack fails with a fatal error.
C25_MergeMismatchRaises ==
    [][(IfExitMismatchStep \/ CatchExitCatchMismatchStep \/ CatchExitTryMismatchStep)
          => err' # "none"]_vars

\* C25 as the code has it: in either tracker a try/catch exit that does
\* not find a catch frame on top fails with a fatal error and leaves the
\* stack as it was; one that finds a catch frame on a frame that is not a
\* try frame pops the catch frame and fails with a fatal error; a
\* conditional exit that does not find a conditional's frame on top
\* returns without an error, without a reporter call and with the stack as
\* it was.
C25_CatchMismatchRaisesIfMismatchSkips ==
    [][/\ CatchExitCatchMismatchStep =>
              (err' = "expectedCatch" /\ scopeStack' = scopeStack)
       /\ CatchExitTryMismatchStep =>
              (err' = "expectedTry" /\ scopeStack' = Pop(scopeStack))
       /\ IfExitMismatchStep =>
              (err' = "none" /\ scopeStack' = scopeStack /\ reporterCalls' = <<>>)]_vars

\* C25 witness: a try/catch exit has failed on a catch frame that lay on a
\* function's frame: the catch frame is gone and the function's frame is
\* on top.
C25_Witness ==
    /\ phase = "free"
    /\ err = "expectedTry"
    /\ lastOp.event = CatchExitEvent
    /\ Len(lastOp.popped) = 1
    /\ Includes(lastOp.popped[1].event, "CatchClause")
    /\ Len(scopeStack) = 2
    /\ TopScope.event = FunctionEnterEvent("FunctionDeclaration", FALSE)

\* The step is the 'CallExpression' handler of at-most-two-simple-responses.
CountCallStep ==
    /\ phase = "free"
    /\ tracker = "Count"
    /\ nextNode' = nextNode + 1
    /\ lastOp'.event = <<"CallExpression">>

\* The arguments of the call of the step that are classified as certainly
\* a simple response, when the call is an action-producing call.
CertainSimpleArguments(op) ==
    IF op.action
    THEN {i \in 1..Len(op.args) : op.args[i].certain /\ op.args[i].result}
    ELSE {}

\* C26: under at-most-two-simple-responses a call raises the count of the
\* current frame by 1 for each argument classified certain = true and
\* result = true and by nothing else: an argument whose classification is
\* uncertain never raises it.  No other frame changes.
C26_OnlyCertainSimpleCounted ==
    [][CountCallStep =>
          LET n == Len(scopeStack)
          IN  /\ err' = "none"
              /\ Len(scopeStack') = n
              /\ SubSeq(scopeStack', 1, n - 1) = SubSeq(scopeStack, 1, n - 1)
              /\ TopScope'.metadata =
                     TopScope.metadata + Cardinality(CertainSimpleArguments(lastOp'))
              /\ (\A i \in 1..Len(lastOp'.args) : ~lastOp'.args[i].certain)
                     => TopScope'.metadata = TopScope.metadata]_vars

\* C26 witness: conv.ask('a', foo(), 'b') has raised the count of a branch
\* frame from 1 to 3.
C26_Witness ==
    /\ phase = "free"
    /\ tracker = "Count"
    /\ lastOp.event = <<"CallExpression">>
    /\ lastOp.action
    /\ lastOp.args = <<SimpleArg, UncertainArg, SimpleArg>>
    /\ Len(scopeStack) = 2
    /\ TopScope.metadata = 3
    /\ nextNode = 4

\* C27: two trackers of the same kind, each freshly constructed, fed the
\* same sequence of events and calls with the same classifier answers, hold
\* after every event the frame stack that one tracker on its own holds, and
\* the last handler of each has raised the same error and made the same
\* reporter invocations and the same reports as that of a tracker on its
\* own; no Scope object is referred to by the stacks of both.
C27_TwinTrackersAgree ==
    phase = "twin" =>
        /\ TwinMgr(twin.heap, twin.first).stack = scopeStack
        /\ TwinMgr(twin.heap, twin.second).stack = scopeStack
        /\ twin.firstOut = [err |-> err, calls |-> reporterCalls, reports |-> reports]
        /\ twin.secondOut = twin.firstOut
        /\ Referenced(twin.first) \cap Referenced(twin.second) = {}

\* C27 witness: both trackers have reported at the same call, each on a
\* stack of two Scope objects of its own, after a call counted on both
\* sentinels.
C27_Witness ==
    /\ phase = "twin"
    /\ Len(twin.first) = 2
    /\ Len(twin.second) = 2
    /\ twin.firstOut.reports # <<>>
    /\ twin.secondOut.reports = twin.firstOut.reports
    /\ TwinMgr(twin.heap, twin.second).stack = TwinMgr(twin.heap, twin.first).stack
    /\ twin.heap[twin.first[1]].metadata # NewManager(tracker).stack[1].metadata

\* C28: in every reachable state of the counting tracker, after any
\* sequence of entering events, exits, return markers and counted calls,
\* the metadata of every frame is a non-negative integer.
C28_CountsNonNegative ==
    tracker = "Count" =>
        \A i \in 1..Len(scopeStack) : scopeStack[i].metadata \in Nat

\* C28 witness: the exit of a chained conditional whose only branch counted
\* 2 and returns has merged max(1, 2) = 2 into a parent that counted 1 and
\* has taken the branch's 2 off again: the parent is left at 0.
C28_Witness ==
    /\ phase = "free"
    /\ CountIfExited
    /\ lastOp.node.chained
    /\ Len(lastOp.popped) = 1
    /\ lastOp.popped[1].hasReturnStatement
    /\ lastOp.popped[1].metadata = 2
    /\ lastOp.parentBefore = 1
    /\ TopScope.metadata = 0

\* A frame that was never pushed on the stack.
ForeignScope == Scope(IfBlockEvent, FALSE, Len(scopeStack))

\* C29: isScopeInsideIntent(frame) of the presence tracker, for a frame on
\* the stack, does not raise and is true exactly when a frame from the
\* sentinel up to and including that frame has a handler-marked label; for
\* a frame that is not on the (non-empty) stack it raises an error.
C29_InsideIntentQuery ==
    (tracker = "Presence" /\ phase = "free") =>
        /\ \A i \in 1..Len(scopeStack) :
               /\ ~IsScopeInsideIntentThrows(scopeStack, scopeStack[i])
               /\ IsScopeInsideIntent(scopeStack, scopeStack[i])
                      = (\E j \in 1..i : Includes(scopeStack[j].event, "Intent"))
        /\ IsScopeInsideIntentThrows(scopeStack, ForeignScope)

\* C29 witness: a call of unknown return type has set the metadata of a
\* branch frame that lies on a handler's frame, the query being true of
\* it, while the function frame below the handler is outside.
C29_Witness ==
    /\ phase = "free"
    /\ tracker = "Presence"
    /\ Len(scopeStack) = 4
    /\ ~Includes(scopeStack[2].event, "Intent")
    /\ Includes(scopeStack[3].event, "Intent")
    /\ scopeStack[4].event = IfBlockEvent
    /\ lastOp.event = <<"CallExpression">>
    /\ ~lastOp.action
    /\ TopScope.metadata = TRUE
    /\ IsScopeInsideIntent(scopeStack, TopScope)
    /\ ~IsScopeInsideIntent(scopeStack, scopeStack[2])

\* The step enters a recognized handler under
\* first-item-simple-or-helper-response.
FirstItemHandlerEntryStep ==
    /\ phase = "first"
    /\ Len(ast') = Len(ast) + 1
    /\ ast'[Len(ast')].intent

\* The step is the first response-building call that lies in the
\* recognized handler that is the innermost open function.
FirstCallOfHandlerStep ==
    /\ phase = "first"
    /\ lastOp'.event = <<"CallExpression">>
    /\ lastOp'.action
    /\ nextNode' = nextNode + 1
    /\ Top.type \in FunctionTypes
    /\ Top.intent
    /\ ~Top.hasCall

\* No argument of the call is a simple response or a helper, or possibly
\* one.
NoItemPossiblySimpleOrHelper(args) ==
    \A i \in 1..Len(args) :
        /\ args[i].simple.certain /\ ~args[i].simple.result
        /\ args[i].helper.certain /\ ~args[i].helper.result

\* C30: under first-item-simple-or-helper-response the first-call flag is
\* true when a recognized handler begins, whether the handler is an arrow
\* function or a function expression and whatever handlers and
\* response-building calls came before it in the file; and the first
\* response-building call of each handler is checked: it is reported, at
\* its callee, exactly when none of its arguments is a simple response or
\* a helper or possibly one.
C30_FirstCallOfEachHandlerChecked ==
    [][/\ FirstItemHandlerEntryStep => firstResponseBuildingCall' = TRUE
       /\ FirstCallOfHandlerStep =>
              /\ firstResponseBuildingCall = TRUE
              /\ reports' = (IF NoItemPossiblySimpleOrHelper(lastOp'.args)
                             THEN <<lastOp'.node.id>> ELSE <<>>)]_vars

\* The step is a response-building call that lies in no recognized
\* handler: it is at the top level of the file or every function open
\* around it is a function that is not a recognized handler.
OutsideHandlerCallStep ==
    /\ phase = "first"
    /\ lastOp'.event = <<"CallExpression">>
    /\ lastOp'.action
    /\ nextNode' = nextNode + 1
    /\ \A i \in 1..Len(ast) : ~ast[i].intent

\* C31: first-item-simple-or-helper-response reports nothing for a
\* response-building call that is not inside a function declared as part
\* of an intent handler definition: a call at the top level of the file or
\* inside functions that are not recognized handlers never produces a
\* violation.
C31_NoReportOutsideHandlers ==
    [][OutsideHandlerCallStep => reports' = <<>>]_vars

\* The step is the exit of a conditional during the walk of a program.
WalkIfExitStep ==
    /\ Running
    /\ Top.type = "IfStatement"
    /\ lastOp'.event = IfExitEvent
    /\ lastOp'.node.id = Top.id

\* C32: on the exit of a conditional, under either tracker, the frames
\* removed from the stack are frames pushed for the consequent and the
\* alternate of that conditional, which lie above the frame that is current
\* where the conditional stands: that frame and the frames below it, pushed
\* for the enclosing function, the enclosing branch or the enclosing try
\* block, stay on the stack, also when a branch of the conditional pushed no
\* frame.
C32_IfExitPopsOwnFramesOnly ==
    [][WalkIfExitStep =>
          /\ Len(scopeStack') >= Top.frame
          /\ \A i \in 1..Top.frame : scopeStack'[i].id = scopeStack[i].id]_vars

\* C33: whenever at-most-two-simple-responses reports a violation (its
\* reporter runs while the current frame counts more than two), the node
\* it reports, the current frame's lastViolatingNode, is a node of the
\* program and never the null the frame was created with, also when the
\* count came to exceed two through the merge of a try statement into a
\* frame that was never incremented itself.
C33_ReportedNodeIsNeverNull ==
    (tracker = "Count" /\ phase \in {"run", "done"}) =>
        \A i \in 1..Len(reports) : reports[i] # NullNode

\* The step is a 'CatchClause:exit' handled by the counting tracker.
CountCatchExitStep ==
    /\ tracker = "Count"
    /\ phase = "free"
    /\ nextNode' = nextNode + 1
    /\ lastOp'.event = CatchExitEvent

\* C34: for the counting tracker, calling the reporter at every
\* 'CatchClause:exit' gives the reports that calling it only when the merge
\* raised the count of the parent gives: from every state an event
\* sequence reaches (the two policies leave the same stack), the exit
\* reports the same violations, as many and at the same nodes, under
\* either policy.
C34_CatchReportPoliciesAgree ==
    [][CountCatchExitStep =>
          reports' = CountHandleCatchExitReportsChange(Mgr, lastOp'.node).reports]_vars

\* A branch frame popped by the conditional exit traced by op holds a
\* return statement and counts r.
ReturningBranchCounts(op, r) ==
    \E i \in 1..Len(op.popped) :
        op.popped[i].hasReturnStatement /\ op.popped[i].metadata = r

\* The step is an 'IfStatement:exit' of the counting tracker that merged a
\* branch holding a return statement.
CountReturningIfExitStep ==
    /\ CountIfExitStep
    /\ \E r \in 0..MaxOps : ReturningBranchCounts(lastOp', r)

\* C35 as stated: on every conditional exit of the counting tracker, when
\* the count p of the parent plus the count of a branch that holds a return
\* statement exceeds 2, a violation is reported at the conditional, the
\* reporter running on the merged count before the correction for return
\* statements.
C35_ReturningBranchOverTwoReported ==
    [][CountReturningIfExitStep =>
          \A r \in 0..MaxOps :
              (ReturningBranchCounts(lastOp', r) /\ lastOp'.parentBefore + r > Threshold)
                  => reports' = <<lastOp'.node.id>>]_vars

\* C35, amended: the conditional exit of the counting tracker merges,
\* then reports, then corrects for return statements: when the merge raised
\* the count of the parent, the one reporter call saw the merged count,
\* whatever the correction leaves afterwards; so on the exit of a
\* conditional that is not the alternate of another, where the merged
\* count is p plus the larger branch count, when the merge raised the count
\* and p plus the count of a returning branch exceeds 2, a violation is
\* reported at the conditional.  When the merge leaves p as it is (no
\* branch counts anything, or a chained conditional whose branches count
\* at most p) the reporter is not called.
C35_ReportSeesMergedCountBeforeUndo ==
    [][CountReturningIfExitStep =>
          IF MergedCount(lastOp') > lastOp'.parentBefore
          THEN /\ Len(reporterCalls') = 1
               /\ reporterCalls'[1].metadata = MergedCount(lastOp')
               /\ reports' = (IF MergedCount(lastOp') > Threshold
                              THEN <<lastOp'.node.id>> ELSE <<>>)
               /\ \A r \in 0..MaxOps :
                      (/\ ~lastOp'.node.chained
                       /\ ReturningBranchCounts(lastOp', r)
                       /\ lastOp'.parentBefore + r > Threshold)
                          => reports' = <<lastOp'.node.id>>
          ELSE reporterCalls' = <<>> /\ reports' = <<>>]_vars

\* C35 witness: a conditional whose consequent holds one response and a
\* return statement has been merged into a parent counting 2: the reporter
\* saw 3 and reported the conditional, and the correction left the parent
\* at 2.
C35_Witness ==
    /\ phase = "free"
    /\ CountIfExited
    /\ ~lastOp.node.chained
    /\ Len(lastOp.popped) = 1
    /\ ConsequentFrame(lastOp).hasReturnStatement
    /\ ConsequentCount(lastOp) = 1
    /\ lastOp.parentBefore = 2
    /\ Len(reporterCalls) = 1
    /\ reporterCalls[1].metadata = 3
    /\ reports = <<lastOp.node.id>>
    /\ TopScope.metadata = 2

\* The step is the exit event of the function-like node that is innermost
\* in the walk.
FunctionExitStep ==
    /\ Running
    /\ Top.type \in FunctionTypes
    /\ ast' = Pop(ast)
    /\ lastOp'.node.id = Top.id

\* C36: in both trackers, in the walk of any program, the exit of a
\* function-like region arrives with the frame pushed at its entry on top
\* and pops that frame and nothing else, folding nothing into the frame
\* beneath: the frame beneath has after the function's enter/exit pair the
\* metadata, the lastViolatingNode and the hasReturnStatement it had just
\* before the function's entry.
C36_FunctionPairLeavesBeneath ==
    [][FunctionExitStep =>
          /\ err' = "none"
          /\ Len(scopeStack) = Top.frame
          /\ Len(scopeStack') = Top.frame - 1
          /\ scopeStack'[Top.frame - 1].metadata = Top.beneath.metadata
          /\ scopeStack'[Top.frame - 1].lastViolatingNode = Top.beneath.lastViolatingNode
          /\ scopeStack'[Top.frame - 1].hasReturnStatement = Top.beneath.hasReturnStatement]_vars

\* C37: in the presence tracker metadata only ever goes from false to
\* true: a frame whose metadata is true before a conditional exit or a
\* try/catch exit merges child frames into it has it true afterwards, and
\* no handler call (entry, exit, return statement, call expression)
\* changes the metadata of a frame that stays on the stack from true to
\* false.
C37_PresenceMetadataMonotone ==
    [][tracker = "Presence" =>
          \A i \in 1..Len(scopeStack) :
              (i <= Len(scopeStack') /\ scopeStack[i].metadata = TRUE)
                  => scopeStack'[i].metadata = TRUE]_vars

\* C37 witness: a conditional whose consequent and alternate frames held
\* false has been merged into a parent that held true: the parent still
\* holds true.
C37_Witness ==
    /\ phase = "free"
    /\ PresenceIfExited
    /\ Len(lastOp.popped) = 2
    /\ lastOp.popped[1].metadata = FALSE
    /\ lastOp.popped[2].metadata = FALSE
    /\ lastOp.parentBefore = TRUE
    /\ Includes(TopScope.event, "Intent")
    /\ TopScope.metadata = TRUE

(***************************************************************************)
(* The classifiers.  A syntax node is a record with its type and the       *)
(* fields the classifiers read.  The lexical scope handed to               *)
(* findVariableNodeValue is the function from the names bound in the scope *)
(* chain to the initializer the lookup finds for the name on its way up    *)
(* (Undefined for a binding without initializer, such as a parameter); a   *)
(* name that is not in its domain is bound nowhere.  A method returns the  *)
(* record [done, raised, value].                                           *)
(***************************************************************************)
Undefined == [type |-> "undefined"]

Identifier(name) == [type |-> "Identifier", name |-> name]

\* callee(..) with the callee an identifier: dialogflow(), fetch(url)
CallOfName(name) == [type |-> "CallExpression", callee |-> Identifier(name)]

Pending == [done |-> FALSE, raised |-> "none", value |-> Undefined]
Returns(value) == [done |-> TRUE, raised |-> "none", value |-> value]
Raises(error) == [done |-> TRUE, raised |-> error, value |-> Undefined]

FindVariableNodeValue(scope, identifierNode) ==
    IF identifierNode.type # "Identifier" THEN Raises("Expected Identifier")
    ELSE IF identifierNode.name \in DOMAIN scope
    THEN Returns(scope[identifierNode.name])
    ELSE Returns(Undefined)

IsNodeIntentHandler(scope, node) ==
    IF node.type = "undefined" THEN Returns(FALSE)
    ELSE IF node.type # "CallExpression" THEN Returns(FALSE)
    ELSE IF node.callee.type # "MemberExpression" THEN Returns(FALSE)
    ELSE IF Len(node.arguments) > 0
            /\ node.arguments[Len(node.arguments)].type = "Literal"
    THEN Returns(FALSE)
    ELSE
      LET memberExpression == node.callee
          found == FindVariableNodeValue(scope, memberExpression.object)
          valueOfMemberExpressionObject == found.value
          isActionsApp ==
              /\ valueOfMemberExpressionObject.type = "CallExpression"
              /\ valueOfMemberExpressionObject.callee.name \in {"dialogflow", "actionssdk"}
      IN  IF found.raised # "none" THEN found
          ELSE IF isActionsApp /\ memberExpression.property.name \in {"intent", "fallback"}
          THEN Returns(~(Len(node.arguments) = 2
                          /\ node.arguments[2].type = "Identifier"))
          ELSE Returns(FALSE)

(***************************************************************************)
(* isNodeIntentHandler on the parent of a function: the rules call it with *)
(* func.parent at the entry and at the exit of every function expression   *)
(* and arrow function.                                                     *)
(***************************************************************************)
\* The receiver of a member call: app, fetch(url), this.app, this
Receivers ==
    {Identifier("app"), CallOfName("fetch"),
     [type |-> "MemberExpression"], [type |-> "ThisExpression"]}

\* What the scope chain binds app to: nothing, a parameter, dialogflow(),
\* actionssdk(), require('x'), 'x'
AppScopes ==
    {<<>>} \cup
    [{"app"} -> {Undefined, CallOfName("dialogflow"), CallOfName("actionssdk"),
                 CallOfName("require"), [type |-> "Literal"]}]

\* The arguments of the call: a name, a function, a string, a variable
ArgumentNodes ==
    {[type |-> "Literal"], [type |-> "Identifier"],
     [type |-> "ArrowFunctionExpression"], [type |-> "FunctionExpression"]}

\* app.intent('x', (conv) => {..});  fetch(url).then((r) => {..});
\* foo((x) => {..});  const f = function () {..};  function f() {..}
FunctionParents ==
    {[type |-> "Program"], [type |-> "VariableDeclarator"]}
    \cup [type : {"CallExpression"}, callee : {Identifier("foo")},
          arguments : [1..1 -> ArgumentNodes] \cup [1..2 -> ArgumentNodes]]
    \cup [type : {"CallExpression"},
          callee : [type : {"MemberExpression"}, object : Receivers,
                    property : [name : {"intent", "fallback", "then"}]],
          arguments : [1..1 -> ArgumentNodes] \cup [1..2 -> ArgumentNodes]]

\* The variables of the rules, which no classifier method reads or writes.
NoRule ==
    /\ tracker = "Classifier"
    /\ scopeStack = <<>>
    /\ err = "none"
    /\ reporterCalls = <<>>
    /\ reports = <<>>
    /\ lastOp = NoOp
    /\ twin = [stack |-> <<>>, err |-> "none", calls |-> <<>>, reports |-> <<>>]
    /\ firstResponseBuildingCall = TRUE
    /\ ast = <<>>
    /\ nextNode = 1
    /\ live = 0
    /\ best = 0
    /\ violations = <<>>

InitIntent ==
    /\ NoRule
    /\ phase = "intent"
    /\ given \in [node : FunctionParents, scope : AppScopes]
    /\ returned = Pending

\* classifier.isNodeIntentHandler(func.parent)
CallIsNodeIntentHandler ==
    /\ phase = "intent"
    /\ ~returned.done
    /\ returned' = IsNodeIntentHandler(given.scope, given.node)
    /\ UNCHANGED <<tracker, scopeStack, err, reporterCalls, reports, lastOp, twin,
                   firstResponseBuildingCall, ast, phase, nextNode, live, best,
                   violations, given>>

NextIntent == CallIsNodeIntentHandler

SpecIntent == InitIntent /\ [][NextIntent]_vars

\* The call is a member call whose receiver is not a plain identifier.
ReceiverIsNoIdentifier(node) ==
    /\ node.type = "CallExpression"
    /\ node.callee.type = "MemberExpression"
    /\ node.callee.object.type # "Identifier"

\* C38: isNodeIntentHandler returns a boolean and raises no error for every
\* parent of a function expression or arrow function that the rules hand
\* it; for a call whose callee is a member expression with a receiver that
\* is not a plain identifier (fetch(url).then(cb), this.app.intent(name,
\* cb)) it returns false.
C38_IsNodeIntentHandlerNeverRaises ==
    (phase = "intent" /\ returned.done) =>
        /\ returned.raised = "none"
        /\ returned.value \in BOOLEAN
        /\ ReceiverIsNoIdentifier(given.node) => returned.value = FALSE

(***************************************************************************)
(* classify of the two classifiers.  _isSimpleResponse and                 *)
(* _isHelperResponse call themselves on the initializer of a variable;     *)
(* depth is the number of their activations on the call stack, and the     *)
(* engine throws a RangeError when the stack is exhausted.                 *)
(***************************************************************************)
\* _createResponse(certain, result)
CreateResponse(certain, result) == Returns([certain |-> certain, result |-> result])

HelperClasses ==
    {"SignIn", "RegisterUpdate", "DeepLink", "DateTime", "Confirmation",
     "NewSurface", "Place", "CompletePurchase", "Decision", "DeliveryAddress",
     "TransactionRequirements", "Permission", "PermissionOptions",
     "UpdatePermission", "List", "Carousel"}

IsString(node) ==
    \/ node.type = "Literal"
    \/ /\ node.type = "BinaryExpression"
       /\ \/ node.left.type \in {"Literal", "TemplateLiteral"}
          \/ node.right.type \in {"Literal", "TemplateLiteral"}
    \/ node.type = "TemplateLiteral"

RECURSIVE SimpleClassify(_, _, _)
SimpleClassify(scope, node, depth) ==
    IF depth > MaxCallStack THEN Raises("RangeError")
    ELSE IF node.type = "CallExpression" THEN CreateResponse(FALSE, FALSE)
    ELSE IF node.type = "Identifier"
    THEN LET val == FindVariableNodeValue(scope, node).value
         IN  IF val.type # "undefined" THEN SimpleClassify(scope, val, depth + 1)
             ELSE CreateResponse(FALSE, FALSE)
    ELSE IF node.type \in {"MemberExpression", "SpreadElement"}
    THEN CreateResponse(FALSE, FALSE)
    ELSE IF node.type = "NewExpression"
    THEN CreateResponse(TRUE, node.callee.name = "SimpleResponse")
    ELSE CreateResponse(TRUE, IsString(node))

RECURSIVE HelperClassify(_, _, _)
HelperClassify(scope, node, depth) ==
    IF depth > MaxCallStack THEN Raises("RangeError")
    ELSE IF node.type = "NewExpression"
    THEN CreateResponse(TRUE, node.callee.name \in HelperClasses)
    ELSE IF node.type = "Identifier"
    THEN LET valueNode == FindVariableNodeValue(scope, node).value
         IN  IF valueNode.type # "undefined"
             THEN HelperClassify(scope, valueNode, depth + 1)
             ELSE CreateResponse(FALSE, FALSE)
    ELSE IF node.type \in {"CallExpression", "MemberExpression", "SpreadElement"}
    THEN CreateResponse(FALSE, FALSE)
    ELSE CreateResponse(TRUE, FALSE)

\* What a variable is initialized with: nothing, 'x', `x`, 'x' + y, a new
\* object, foo(), o.p, another variable or itself
Initializers ==
    {Undefined, [type |-> "Literal"], [type |-> "TemplateLiteral"],
     [type |-> "BinaryExpression", left |-> [type |-> "Literal"],
                                   right |-> Identifier("a")],
     [type |-> "NewExpression", callee |-> Identifier("SimpleResponse")],
     [type |-> "NewExpression", callee |-> Identifier("SignIn")],
     [type |-> "NewExpression", callee |-> Identifier("BasicCard")],
     CallOfName("foo"), [type |-> "MemberExpression"],
     Identifier("a"), Identifier("b")}

\* The variables a and b of the scope chain, c bound nowhere.
ClassifyScopes == [{"a", "b"} -> Initializers]

\* The argument of the response-building call.
ClassifiedNodes ==
    (Initializers \ {Undefined})
    \cup {Identifier("c"), [type |-> "SpreadElement"],
          [type |-> "BinaryExpression", left |-> Identifier("a"),
                                        right |-> Identifier("b")]}

InitClassify ==
    /\ NoRule
    /\ phase = "classify"
    /\ given \in [node : ClassifiedNodes, scope : ClassifyScopes,
                  classifier : {"SimpleResponseClassifier", "HelperResponseClassifier"}]
    /\ returned = Pending

\* classifier.classify(node)
CallClassify ==
    /\ phase = "classify"
    /\ ~returned.done
    /\ returned' = IF given.classifier = "SimpleResponseClassifier"
                   THEN SimpleClassify(given.scope, given.node, 1)
                   ELSE HelperClassify(given.scope, given.node, 1)
    /\ UNCHANGED <<tracker, scopeStack, err, reporterCalls, reports, lastOp, twin,
                   firstResponseBuildingCall, ast, phase, nextNode, live, best,
                   violations, given>>

NextClassify == CallClassify

SpecClassify == InitClassify /\ [][NextClassify]_vars

\* C39: classify of the simple-response classifier and of the
\* helper-response classifier terminates and returns a pair {certain,
\* result} for every expression and every lexical environment: the lookup
\* of a variable reference has a defined end, also when the initializer of
\* the variable is itself a variable reference and when initializers refer
\* to each other in a cycle (var a = b; var b = a;).
C39_ClassifyReturnsAPair ==
    (phase = "classify" /\ returned.done) =>
        /\ returned.raised = "none"
        /\ returned.value \in [certain : BOOLEAN, result : BOOLEAN]

=============================================================================
